---- MODULE Spec2Model ----
(***************************************************************************)
(* Model of Ina226BatteryMonitor (lib/ina226_battery_monitor): the OCV     *)
(* estimator, the coulomb-counting integrator, the save throttler and the  *)
(* persisted record, as the library code computes them.                    *)
(*                                                                         *)
(* Number representation                                                   *)
(*   uint32_t  <<hi, lo>>, two 16-bit limbs, arithmetic modulo 2^32        *)
(*   float     <<m, e>> = m * 2^e, the binary32 value, 2^23 <= |m| < 2^24  *)
(*   double    <<h, l, e>> = +-(|h| * 2^27 + l) * 2^e, the binary64 value, *)
(*             2^25 <= |h| < 2^26, 0 <= l < 2^27, the sign that of h       *)
(*   NaN       the empty tuple                                             *)
(* Every float and double operation of the code is computed with its       *)
(* rounding (to nearest, ties to even), in the order the code computes it. *)
(***************************************************************************)
EXTENDS Integers, Sequences, FiniteSets, TLC

\* NAN: a value of its own (no quantity, no blob of that shape is empty)
NaN == <<>>

\* ------------------------------------------------------------------------
\* uint32_t arithmetic (two 16-bit limbs)
\* ------------------------------------------------------------------------
Limb == 65536

\* the uint32_t with value n, for 0 <= n < 2^31
ToU32(n) == <<n \div Limb, n % Limb>>

\* a - b that does not go below zero
Sub32_Saturating(a, b) ==
  IF a[1] < b[1] \/ (a[1] = b[1] /\ a[2] < b[2]) THEN <<0, 0>>
  ELSE LET lo == a[2] - b[2]
           borrow == IF lo < 0 THEN 1 ELSE 0
       IN  <<a[1] - b[1] - borrow, lo % 65536>>

\* a - b modulo 2^32 (unsigned subtraction, ina226_battery_monitor.cpp:153, 371)
Sub32(a, b) ==
  LET lo == a[2] - b[2]
      borrow == IF lo < 0 THEN 1 ELSE 0
  IN  <<(a[1] - b[1] - borrow) % Limb, lo % Limb>>

\* a + b modulo 2^32 (the millisecond counter of millis() wraps)
Add32(a, b) ==
  LET lo == a[2] + b[2]
      carry == IF lo >= Limb THEN 1 ELSE 0
  IN  <<(a[1] + b[1] + carry) % Limb, lo % Limb>>

Lt32(a, b) == a[1] < b[1] \/ (a[1] = b[1] /\ a[2] < b[2])

Zero32 == <<0, 0>>

\* ------------------------------------------------------------------------
\* float (binary32) and double (binary64) as the build computes them, every
\* operation rounded to nearest, ties to even
\*   float   <<m, e>> = m * 2^e, 2^23 <= |m| < 2^24; zero is <<0, 0>>
\*   double  <<h, l, e>> = +-(|h| * 2^27 + l) * 2^e with the sign of h,
\*           2^25 <= |h| < 2^26, 0 <= l < 2^27; zero is <<0, 0, 0>>
\* The values of the monitor stay far from the ends of the exponent range:
\* overflow, subnormals and the sign of zero are not represented.
\* ------------------------------------------------------------------------
Abs(x) == IF x < 0 THEN -x ELSE x

Sign(x) == IF x < 0 THEN -1 ELSE IF x > 0 THEN 1 ELSE 0

F32Zero == <<0, 0>>

\* how many low bits n < 2^31 has to lose to fit 24 bits
RECURSIVE ExtraBits(_)
ExtraBits(n) == IF n < 16777216 THEN 0 ELSE 1 + ExtraBits(n \div 2)

\* the float nearest to n * 2^e, 0 <= n < 2^31; with sticky, to a value
\* between n * 2^e and (n + 1) * 2^e (n then has 26 bits or more)
RECURSIVE F32Round(_, _, _)
F32Round(n, e, sticky) ==
  IF n = 0 THEN F32Zero
  ELSE IF n < 32768 THEN F32Round(256 * n, e - 8, sticky)
  ELSE IF n < 8388608 THEN F32Round(2 * n, e - 1, sticky)
  ELSE LET k    == ExtraBits(n)
           q    == n \div (2 ^ k)
           rem  == n % (2 ^ k)
           half == IF k = 0 THEN 1 ELSE (2 ^ (k - 1))
           up   == k > 0 /\ ( \/ rem > half
                              \/ rem = half /\ (sticky \/ q % 2 = 1) )
           m    == IF up THEN q + 1 ELSE q
       IN  IF m = 16777216 THEN <<8388608, e + k + 1>> ELSE <<m, e + k>>

\* -a, and fabsf(a)
F32Neg(a) == <<-a[1], a[2]>>

F32Abs(a) == <<Abs(a[1]), a[2]>>

\* static_cast<float>(n), |n| < 2^31
F32OfInt(n) == IF n < 0 THEN F32Neg(F32Round(-n, 0, FALSE)) ELSE F32Round(n, 0, FALSE)

\* |a| < |b|
F32MagLt(a, b) ==
  IF b[1] = 0 THEN FALSE
  ELSE IF a[1] = 0 THEN TRUE
  ELSE a[2] < b[2] \/ (a[2] = b[2] /\ Abs(a[1]) < Abs(b[1]))

\* a < b
F32Lt(a, b) ==
  IF a[1] < 0 THEN b[1] >= 0 \/ F32MagLt(b, a)
  ELSE b[1] > 0 /\ F32MagLt(a, b)

\* a <= b
F32Le(a, b) == ~F32Lt(b, a)

\* m * 2^6 shifted down by gap bits: <<the bits kept, bits were lost>>
Aligned(m, gap) ==
  IF gap > 30 THEN <<0, m # 0>>
  ELSE <<(m * 64) \div (2 ^ gap), (m * 64) % (2 ^ gap) # 0>>

\* a + b
F32Add(a, b) ==
  IF a[1] = 0 THEN b
  ELSE IF b[1] = 0 THEN a
  ELSE LET hi == IF F32MagLt(a, b) THEN b ELSE a
           lo == IF F32MagLt(a, b) THEN a ELSE b
           al == Aligned(Abs(lo[1]), hi[2] - lo[2])
           r  == IF Sign(a[1]) = Sign(b[1])
                 THEN F32Round(Abs(hi[1]) * 64 + al[1], hi[2] - 6, al[2])
                 ELSE F32Round(Abs(hi[1]) * 64 - al[1] - (IF al[2] THEN 1 ELSE 0),
                               hi[2] - 6, al[2])
       IN  IF hi[1] < 0 THEN F32Neg(r) ELSE r

\* a - b
F32Sub(a, b) == F32Add(a, F32Neg(b))

\* a * b: the 48-bit product of the significands from 12-bit halves, as
\* high * 2^24 + low
F32Mul(a, b) ==
  IF a[1] = 0 \/ b[1] = 0 THEN F32Zero
  ELSE LET a1   == Abs(a[1]) \div 4096
           a0   == Abs(a[1]) % 4096
           b1   == Abs(b[1]) \div 4096
           b0   == Abs(b[1]) % 4096
           mid  == a1 * b0 + a0 * b1
           low  == (mid % 4096) * 4096 + a0 * b0
           high == a1 * b1 + (mid \div 4096) + (low \div 16777216)
           rest == low % 16777216
           r    == F32Round(high * 64 + (rest \div 262144), a[2] + b[2] + 18,
                            rest % 262144 # 0)
       IN  IF Sign(a[1]) = Sign(b[1]) THEN r ELSE F32Neg(r)

\* the quotient of the significands, bit by bit: <<quotient, remainder>> after
\* the given number of further bits
RECURSIVE DivBits(_, _, _, _)
DivBits(q, r, d, bits) ==
  IF bits = 0 THEN <<q, r>>
  ELSE IF 2 * r >= d THEN DivBits(2 * q + 1, 2 * r - d, d, bits - 1)
       ELSE DivBits(2 * q, 2 * r, d, bits - 1)

\* a / b, b # 0
F32Div(a, b) ==
  IF a[1] = 0 THEN F32Zero
  ELSE LET qr == DivBits(Abs(a[1]) \div Abs(b[1]), Abs(a[1]) % Abs(b[1]), Abs(b[1]), 26)
           r  == F32Round(qr[1], a[2] - b[2] - 26, qr[2] # 0)
       IN  IF Sign(a[1]) = Sign(b[1]) THEN r ELSE F32Neg(r)

\* the float of a decimal literal with three decimals, given in thousandths
\* (12.60f is F32OfMilli(12600)): the float nearest to n / 1000
F32OfMilli(n) == F32Div(F32OfInt(n), F32OfInt(1000))

\* ---- double ----
DZero == <<0, 0, 0>>

\* the two words h * 2^27 + l shifted down by k bits:
\* <<high word, low word, bits were lost>>
RECURSIVE Shifted(_, _, _)
Shifted(h, l, k) ==
  IF k = 0 THEN <<h, l, FALSE>>
  ELSE IF k >= 27
       THEN LET s == Shifted(h \div 134217728, h % 134217728, k - 27)
            IN  <<s[1], s[2], s[3] \/ l # 0>>
       ELSE <<h \div (2 ^ k), (h % (2 ^ k)) * (2 ^ (27 - k)) + (l \div (2 ^ k)),
              l % (2 ^ k) # 0>>

\* the double nearest to +-(h * 2^27 + l) * 2^e, 0 <= h < 2^31, 0 <= l < 2^27;
\* with sticky, to a value between that and +-(h * 2^27 + l + 1) * 2^e (the
\* two words then have 55 bits or more)
RECURSIVE DRound(_, _, _, _, _)
DRound(sign, h, l, e, sticky) ==
  IF h = 0 /\ l = 0 THEN DZero
  ELSE IF h < 131072 THEN DRound(sign, h * 256 + (l \div 524288), (l % 524288) * 256, e - 8, sticky)
  ELSE IF h < 33554432 THEN DRound(sign, 2 * h + (l \div 67108864), (l % 67108864) * 2, e - 1, sticky)
  ELSE IF h < 67108864 THEN <<sign * h, l, e>>
  ELSE LET k    == ExtraBits(h \div 4)
           q    == Shifted(h, l, k)
           rem  == l % (2 ^ k)
           half == (2 ^ (k - 1))
           up   == \/ rem > half
                   \/ rem = half /\ (sticky \/ q[2] % 2 = 1)
       IN  IF ~up THEN <<sign * q[1], q[2], e + k>>
           ELSE IF q[2] + 1 < 134217728 THEN <<sign * q[1], q[2] + 1, e + k>>
           ELSE IF q[1] + 1 < 67108864 THEN <<sign * (q[1] + 1), 0, e + k>>
           ELSE <<sign * 33554432, 0, e + k + 1>>

\* static_cast<double>(f), f a float
DOfF32(f) == IF f[1] = 0 THEN DZero ELSE <<f[1] * 4, 0, f[2] - 29>>

\* static_cast<double>(u), u a uint32_t
DOfU32(u) == DRound(1, u[1] \div 2048, (u[1] % 2048) * 65536 + u[2], 0, FALSE)

\* static_cast<float>(d), d a double
F32OfD(d) ==
  IF d[1] < 0 THEN F32Neg(F32Round(-d[1], d[3] + 27, d[2] # 0))
  ELSE F32Round(d[1], d[3] + 27, d[2] # 0)

\* -a, and fabs(a)
DAbs(a) == <<Abs(a[1]), a[2], a[3]>>

\* |a| < |b|
DMagLt(a, b) ==
  IF b[1] = 0 THEN FALSE
  ELSE IF a[1] = 0 THEN TRUE
  ELSE \/ a[3] < b[3]
       \/ a[3] = b[3] /\ Abs(a[1]) < Abs(b[1])
       \/ a[3] = b[3] /\ Abs(a[1]) = Abs(b[1]) /\ a[2] < b[2]

\* a < b
DLt(a, b) ==
  IF a[1] < 0 THEN b[1] >= 0 \/ DMagLt(b, a)
  ELSE b[1] > 0 /\ DMagLt(a, b)

\* a + b: the significands with three more bits, the smaller one shifted
\* down to the exponent of the larger
DAdd(a, b) ==
  IF a[1] = 0 THEN b
  ELSE IF b[1] = 0 THEN a
  ELSE LET hi == IF DMagLt(a, b) THEN b ELSE a
           lo == IF DMagLt(a, b) THEN a ELSE b
           xh == Abs(hi[1]) * 8 + (hi[2] \div 16777216)
           xl == (hi[2] % 16777216) * 8
           y  == Shifted(Abs(lo[1]) * 8 + (lo[2] \div 16777216), (lo[2] % 16777216) * 8,
                         hi[3] - lo[3])
           sl == xl + y[2]
           dl == xl - y[2] - (IF y[3] THEN 1 ELSE 0)
       IN  IF Sign(a[1]) = Sign(b[1])
           THEN DRound(Sign(hi[1]), xh + y[1] + (sl \div 134217728), sl % 134217728,
                       hi[3] - 3, y[3])
           ELSE DRound(Sign(hi[1]), xh - y[1] - (IF dl < 0 THEN 1 ELSE 0), dl % 134217728,
                       hi[3] - 3, y[3])

\* a - b
DSub(a, b) == DAdd(a, <<-b[1], b[2], b[3]>>)

\* the 14-bit limbs of the significand of a, lowest first
Limbs(a) ==
  << a[2] % 16384, (a[2] \div 16384) + (Abs(a[1]) % 2) * 8192,
     (Abs(a[1]) \div 2) % 16384, Abs(a[1]) \div 32768 >>

\* the limbs of the sum of the columns from the i-th on, with the carry
RECURSIVE Carried(_, _, _)
Carried(cols, i, carry) ==
  IF i > Len(cols) THEN <<carry>>
  ELSE <<(cols[i] + carry) % 16384>> \o Carried(cols, i + 1, (cols[i] + carry) \div 16384)

\* a * b: the 106-bit product of the significands in 14-bit limbs, its bits
\* from the 49th up kept
DMul(a, b) ==
  IF a[1] = 0 \/ b[1] = 0 THEN DZero
  ELSE LET x == Limbs(a)
           y == Limbs(b)
           r == Carried(<< x[1] * y[1],
                           x[1] * y[2] + x[2] * y[1],
                           x[1] * y[3] + x[2] * y[2] + x[3] * y[1],
                           x[1] * y[4] + x[2] * y[3] + x[3] * y[2] + x[4] * y[1],
                           x[2] * y[4] + x[3] * y[3] + x[4] * y[2],
                           x[3] * y[4] + x[4] * y[3],
                           x[4] * y[4] >>, 1, 0)
       IN  DRound(Sign(a[1]) * Sign(b[1]),
                  (r[6] \div 64) + r[7] * 256 + r[8] * 4194304,
                  (r[4] \div 128) + r[5] * 128 + (r[6] % 64) * 2097152,
                  a[3] + b[3] + 49,
                  r[4] % 128 # 0 \/ r[3] # 0 \/ r[2] # 0 \/ r[1] # 0)

\* one step of the division by d: bits more bits of the dividend, in chunk,
\* taken into <<quotient, remainder>>
DivStep(qr, chunk, bits, d) ==
  << qr[1] * (2 ^ bits) + ((qr[2] * (2 ^ bits) + chunk) \div d),
     (qr[2] * (2 ^ bits) + chunk) % d >>

\* a / b for b # 0 with a significand of 24 bits (a float made double, or
\* 100.0, or 3600000.0): the quotient of the significands to 28 binary places
DDiv(a, b) ==
  IF a[1] = 0 THEN DZero
  ELSE LET d  == Abs(b[1]) \div 4
           h  == Abs(a[1])
           l  == a[2]
           q  == DivStep(DivStep(DivStep(DivStep(<<h \div d, h % d>>,
                   l \div 1048576, 7, d), (l \div 8192) % 128, 7, d),
                   (l \div 64) % 128, 7, d), l % 64, 6, d)
           f  == DivStep(DivStep(DivStep(DivStep(<<0, q[2]>>, 0, 7, d), 0, 7, d),
                   0, 7, d), 0, 7, d)
       IN  DRound(Sign(a[1]) * Sign(b[1]), q[1] * 2 + (f[1] \div 134217728), f[1] % 134217728,
                  a[3] - b[3] - 57, f[2] # 0)

\* static_cast<uint32_t>(d), 0 <= d < 2^32
U32OfD(d) ==
  IF d[1] = 0 THEN <<0, 0>>
  ELSE LET s == Shifted(d[1], d[2], -d[3])
       IN  <<s[1] * 2048 + (s[2] \div 65536), s[2] % 65536>>

\* static_cast<uint32_t>(f), 0 <= f < 2^32
U32OfF32(f) ==
  IF f[2] >= 0
  THEN <<f[1] \div (2 ^ (16 - f[2])), (f[1] % (2 ^ (16 - f[2]))) * (2 ^ (f[2]))>>
  ELSE IF f[2] < -30 THEN <<0, 0>>
  ELSE <<(f[1] \div (2 ^ (-f[2]))) \div 65536, (f[1] \div (2 ^ (-f[2]))) % 65536>>

\* the double of a whole number, |n| < 2^24 (100.0 is DOfInt(100))
DOfInt(n) == DOfF32(F32OfInt(n))

\* the double of a decimal literal: the double nearest to n / d, for whole
\* n and d below 2^24 (1234.56 is DOfRatio(123456, 100))
DOfRatio(n, d) == DDiv(DOfInt(n), DOfInt(d))

\* the literals 100.0, 3600000.0 and 100.0f
Hundred == DOfInt(100)

MsPerHour == DOfInt(3600000)

FullSoc == F32OfInt(100)

\* ------------------------------------------------------------------------
\* Configuration (Ina226BatteryMonitor::Config) and the built-in OCV table
\* ------------------------------------------------------------------------
NullTable == <<>>

\* a table of SocPoint {voltage_v, soc_percent}, two floats, from its
\* literals: <<thousandths of a volt, whole percent>> for each breakpoint
\* ({12.60f, 100.0f} is <<12600, 100>>)
SocTable(points) ==
  [ i \in DOMAIN points |-> [ voltage_v   |-> F32OfMilli(points[i][1]),
                              soc_percent |-> F32OfInt(points[i][2]) ] ]

k_default_soc_table_ ==
  SocTable(<< <<12600, 100>>, <<12300, 90>>, <<12000, 80>>, <<11700, 70>>,
              <<11400, 60>>,  <<11100, 50>>, <<10800, 40>>, <<10500, 30>>,
              <<10200, 20>>,  <<9600, 10>>,  <<9000, 0>> >>)

\* the defaults of struct Config; nvs_namespace/nvs_key_state are modelled by
\* the strings themselves ("" is the empty string, NullTable a null pointer)
DefaultConfig ==
  [ battery_capacity_mah            |-> F32OfInt(3000),
    current_polarity                |-> 1,
    current_deadzone_ma             |-> F32OfInt(1),
    soc_table                       |-> NullTable,
    nvs_namespace                   |-> "bat",
    nvs_key_state                   |-> "state",
    save_interval_ms                |-> ToU32(600000),
    min_save_delta_mah              |-> DOfInt(1),
    startup_voltage_samples         |-> 5,
    startup_voltage_sample_delay_ms |-> 50,
    full_charge_voltage_v           |-> F32OfMilli(12500),
    full_charge_current_ma          |-> F32OfInt(50) ]

\* line 356: low_p + (voltage_v - low_v) * (high_p - low_p) / (high_v - low_v)
Interpolate(voltage_v, high, low) ==
  F32Add(low.soc_percent,
         F32Div(F32Mul(F32Sub(voltage_v, low.voltage_v),
                       F32Sub(high.soc_percent, low.soc_percent)),
                F32Sub(high.voltage_v, low.voltage_v)))

\* lines 348-361: the loop from index i on
RECURSIVE SocSearch(_, _, _)
SocSearch(table, i, voltage_v) ==
  IF i + 1 > Len(table)
  THEN table[Len(table)].soc_percent
  ELSE IF F32Le(voltage_v, table[i].voltage_v) /\ F32Lt(table[i + 1].voltage_v, voltage_v)
       THEN Interpolate(voltage_v, table[i], table[i + 1])
       ELSE SocSearch(table, i + 1, voltage_v)

\* lines 335-341: the table get_soc_from_voltage uses
TableOf(config) ==
  IF config.soc_table = NullTable \/ Len(config.soc_table) < 2
  THEN k_default_soc_table_ ELSE config.soc_table

get_soc_from_voltage(config, voltage_v) ==
  LET table == TableOf(config)
  IN  IF F32Le(table[1].voltage_v, voltage_v)
      THEN table[1].soc_percent
      ELSE IF F32Le(voltage_v, table[Len(table)].voltage_v)
           THEN table[Len(table)].soc_percent
           ELSE SocSearch(table, 1, voltage_v)

\* static_cast<float>((remaining_capacity_mah_ / battery_capacity_mah) * 100.0)
SocOfRemaining(config, rem) ==
  F32OfD(DMul(DDiv(rem, DOfF32(config.battery_capacity_mah)), Hundred))

\* (static_cast<double>(soc_percent_) / 100.0) * battery_capacity_mah
RemainingOfSoc(config, soc) ==
  DMul(DDiv(DOfF32(soc), Hundred), DOfF32(config.battery_capacity_mah))

\* clamp to [0, battery_capacity_mah] (the two ifs after each assignment)
ClampRemaining(config, rem) ==
  LET lo == IF DLt(rem, DZero) THEN DZero ELSE rem
  IN  IF DLt(DOfF32(config.battery_capacity_mah), lo)
      THEN DOfF32(config.battery_capacity_mah) ELSE lo

\* MahDelta that takes the low 16 bits of elapsed_ms
MahDelta_Low16(effective_current_ma, elapsed_ms) ==
  DMul(DOfF32(effective_current_ma),
       DDiv(DOfU32(<<0, elapsed_ms[2]>>), MsPerHour))

\* lines 156-157: hours_passed = static_cast<double>(elapsed_ms) / 3600000.0,
\* mah_delta = static_cast<double>(effective_current_ma) * hours_passed
MahDelta(effective_current_ma, elapsed_ms) ==
  DMul(DOfF32(effective_current_ma), DDiv(DOfU32(elapsed_ms), MsPerHour))

\* ------------------------------------------------------------------------
\* CRC-32 and the persisted record (struct PersistedBatteryState, packed,
\* little-endian: 20 bytes)
\* ------------------------------------------------------------------------
RECURSIVE BitXor(_, _, _)
BitXor(a, b, bits) ==
  IF bits = 0 THEN 0
  ELSE ((a + b) % 2) + 2 * BitXor(a \div 2, b \div 2, bits - 1)

\* a ^ b for bytes, tabulated
XorByte == [a \in 0..255 |-> [b \in 0..255 |-> BitXor(a, b, 8)]]

Xor16(a, b) ==
  IF b = 0 THEN a
  ELSE XorByte[a % 256][b % 256] + 256 * XorByte[a \div 256][b \div 256]

Xor32(a, b) == <<Xor16(a[1], b[1]), Xor16(a[2], b[2])>>

\* 0xEDB88320
CrcPoly == <<60856, 33568>>

\* one pass of the inner loop: mask = -(crc & 1); crc = (crc >> 1) ^ (poly & mask)
CrcBit(crc) ==
  LET mask == IF crc[2] % 2 = 1 THEN CrcPoly ELSE Zero32
  IN  Xor32(<<crc[1] \div 2, (crc[2] \div 2) + (crc[1] % 2) * 32768>>, mask)

\* the eight passes of the inner loop on a value below 256
CrcPasses(low) ==
  CrcBit(CrcBit(CrcBit(CrcBit(CrcBit(CrcBit(CrcBit(CrcBit(<<0, low>>))))))))

CrcTable == [low \in 0..255 |-> CrcPasses(low)]

\* crc ^= data[i], then the eight passes: they test the low eight bits only
\* and shift the rest down, so the result is CrcTable[low byte] ^ (crc >> 8)
CrcByte(crc, byte) ==
  Xor32(CrcTable[XorByte[crc[2] % 256][byte]],
        <<crc[1] \div 256, (crc[2] \div 256) + (crc[1] % 256) * 256>>)

RECURSIVE CrcLoop(_, _, _, _)
CrcLoop(crc, data, i, length) ==
  IF i > length THEN crc
  ELSE LET next == CrcByte(crc, data[i])
       IN  IF next = crc THEN CrcLoop(crc, data, i + 1, length)
           ELSE CrcLoop(next, data, i + 1, length)

\* calc_crc32_le that leaves the last byte out
calc_crc32_le_SkipsLast(data, length) ==
  LET crc == CrcLoop(<<65535, 65535>>, data, 1, length - 1)
  IN  <<65535 - crc[1], 65535 - crc[2]>>

calc_crc32_le(data, length) ==
  LET crc == CrcLoop(<<65535, 65535>>, data, 1, length)
  IN  <<65535 - crc[1], 65535 - crc[2]>>

\* 0x42415431 ('BAT1')
k_battery_state_magic == <<16961, 21553>>

k_battery_state_version == 1

\* sizeof(PersistedBatteryState) and offsetof(PersistedBatteryState, crc32)
StateSize == 20

CrcOffset == 16

Bytes16(x) == <<x % 256, x \div 256>>

Bytes32(u) == Bytes16(u[2]) \o Bytes16(u[1])

Word16(data, at) == data[at] + 256 * data[at + 1]

Word32(data, at) == <<Word16(data, at + 2), Word16(data, at)>>

\* the bytes of a PersistedBatteryState in memory
StateBytes(state) ==
  Bytes32(state.magic) \o Bytes16(state.version) \o Bytes16(state.reserved)
    \o Bytes32(state.capacity_mah_x1) \o Bytes32(state.remaining_mah_x100)
    \o Bytes32(state.crc32)

\* the PersistedBatteryState that 20 bytes of memory hold
StateOfBytes(data) ==
  [ magic              |-> Word32(data, 1),
    version            |-> Word16(data, 5),
    reserved           |-> Word16(data, 7),
    capacity_mah_x1    |-> Word32(data, 9),
    remaining_mah_x100 |-> Word32(data, 13),
    crc32              |-> Word32(data, 17) ]

\* static_cast<uint32_t>(battery_capacity_mah + 0.5f)
CapacityX1(config) == U32OfF32(F32Add(config.battery_capacity_mah, <<2 ^ 23, -24>>))

\* static_cast<uint32_t>(remaining_capacity_mah * 100.0 + 0.5), remaining >= 0
RemainingX100(rem) == U32OfD(DAdd(DMul(rem, Hundred), <<2 ^ 25, 0, -53>>))

\* remaining_mah_x100 read as 16 bits
RemainingOfX100_Low16(x) == DDiv(DOfU32(<<0, x[2]>>), Hundred)

\* static_cast<double>(remaining_mah_x100) / 100.0
RemainingOfX100(x) == DDiv(DOfU32(x), Hundred)

\* is_nvs_enabled that looks at the key only
is_nvs_enabled_KeyOnly(config) ==
  config.nvs_key_state # ""

is_nvs_enabled(config) ==
  config.nvs_namespace # "" /\ config.nvs_key_state # ""

\* lines 308-319 of save_remaining_capacity_to_nvs: the record that is written
EncodeState(config, remaining_capacity_mah) ==
  LET body == [ magic              |-> k_battery_state_magic,
                version            |-> k_battery_state_version,
                reserved           |-> 0,
                capacity_mah_x1    |-> CapacityX1(config),
                remaining_mah_x100 |-> RemainingX100(ClampRemaining(config, remaining_capacity_mah)),
                crc32              |-> Zero32 ]
  IN  [body EXCEPT !.crc32 = calc_crc32_le(StateBytes(body), CrcOffset)]

\* ------------------------------------------------------------------------
\* The monitor's fields and the storage, threaded through the private
\* methods as a record m:
\*   remaining, soc, last_time, last_save, last_saved   the fields
\*   nvs      the blob stored under nvs_namespace/nvs_key_state (<<>>: none)
\*   io       outcomes the storage will give to the next transactions
\*   log      the Preferences calls made so far in the current operation
\*   checks   the maybe_save_to_nvs calls made so far in the operation
\*   load     the outcome of the load made in the operation, if any
\* ------------------------------------------------------------------------
NoBlob == <<>>

\* no load has been made
NoLoad == [ok |-> FALSE, cause |-> "not_called", value |-> NaN]

\* the outcome of one storage transaction is "ok" (it works), "open_fail"
\* (Preferences::begin fails) or "short" (getBytes/putBytes transfers fewer
\* bytes than asked)
NextIo(m) == IF m.io = <<>> THEN "ok" ELSE Head(m.io)

RestIo(m) == IF m.io = <<>> THEN <<>> ELSE Tail(m.io)

\* load_remaining_capacity_from_nvs that does not look at the crc32
load_remaining_capacity_from_nvs_NoCrc(config, m) ==
  LET fail(cause, calls, used) ==
        [ok |-> FALSE, value |-> DZero, cause |-> cause,
         m |-> [m EXCEPT !.log = @ \o calls, !.io = IF used THEN RestIo(m) ELSE @,
                         !.load = [ok |-> FALSE, cause |-> cause, value |-> NaN]]]
      state == StateOfBytes(m.nvs)
  IN  IF ~is_nvs_enabled(config) THEN fail("disabled", <<>>, FALSE)
      ELSE IF NextIo(m) = "open_fail" THEN fail("open", <<"begin_ro_failed">>, TRUE)
      ELSE IF Len(m.nvs) # StateSize
        THEN fail("size", <<"begin_ro", "getBytesLength", "end">>, TRUE)
      ELSE IF NextIo(m) = "short"
        THEN fail("read", <<"begin_ro", "getBytesLength", "getBytes", "end">>, TRUE)
      ELSE IF state.magic # k_battery_state_magic \/ state.version # k_battery_state_version
        THEN fail("magic_version", <<"begin_ro", "getBytesLength", "getBytes", "end">>, TRUE)
      ELSE IF state.capacity_mah_x1 # CapacityX1(config)
        THEN fail("capacity", <<"begin_ro", "getBytesLength", "getBytes", "end">>, TRUE)
      ELSE [ok |-> TRUE, value |-> RemainingOfX100(state.remaining_mah_x100),
            cause |-> "none",
            m |-> [m EXCEPT !.log = @ \o <<"begin_ro", "getBytesLength", "getBytes", "end">>,
                            !.io = RestIo(m),
                            !.load = [ok |-> TRUE, cause |-> "none",
                                      value |-> RemainingOfX100(state.remaining_mah_x100)]]]

\* load_remaining_capacity_from_nvs that checks the crc32 before the capacity
load_remaining_capacity_from_nvs_CrcFirst(config, m) ==
  LET fail(cause, calls, used) ==
        [ok |-> FALSE, value |-> DZero, cause |-> cause,
         m |-> [m EXCEPT !.log = @ \o calls, !.io = IF used THEN RestIo(m) ELSE @,
                         !.load = [ok |-> FALSE, cause |-> cause, value |-> NaN]]]
      state == StateOfBytes(m.nvs)
  IN  IF ~is_nvs_enabled(config) THEN fail("disabled", <<>>, FALSE)
      ELSE IF NextIo(m) = "open_fail" THEN fail("open", <<"begin_ro_failed">>, TRUE)
      ELSE IF Len(m.nvs) # StateSize
        THEN fail("size", <<"begin_ro", "getBytesLength", "end">>, TRUE)
      ELSE IF NextIo(m) = "short"
        THEN fail("read", <<"begin_ro", "getBytesLength", "getBytes", "end">>, TRUE)
      ELSE IF state.magic # k_battery_state_magic \/ state.version # k_battery_state_version
        THEN fail("magic_version", <<"begin_ro", "getBytesLength", "getBytes", "end">>, TRUE)
      ELSE IF state.crc32 # calc_crc32_le(m.nvs, CrcOffset)
        THEN fail("crc", <<"begin_ro", "getBytesLength", "getBytes", "end">>, TRUE)
      ELSE IF state.capacity_mah_x1 # CapacityX1(config)
        THEN fail("capacity", <<"begin_ro", "getBytesLength", "getBytes", "end">>, TRUE)
      ELSE [ok |-> TRUE, value |-> RemainingOfX100(state.remaining_mah_x100),
            cause |-> "none",
            m |-> [m EXCEPT !.log = @ \o <<"begin_ro", "getBytesLength", "getBytes", "end">>,
                            !.io = RestIo(m),
                            !.load = [ok |-> TRUE, cause |-> "none",
                                      value |-> RemainingOfX100(state.remaining_mah_x100)]]]

\* load_remaining_capacity_from_nvs: [ok, value, cause, m]
load_remaining_capacity_from_nvs(config, m) ==
  LET fail(cause, calls, used) ==
        [ok |-> FALSE, value |-> DZero, cause |-> cause,
         m |-> [m EXCEPT !.log = @ \o calls, !.io = IF used THEN RestIo(m) ELSE @,
                         !.load = [ok |-> FALSE, cause |-> cause, value |-> NaN]]]
      state == StateOfBytes(m.nvs)
  IN  IF ~is_nvs_enabled(config) THEN fail("disabled", <<>>, FALSE)
      ELSE IF NextIo(m) = "open_fail" THEN fail("open", <<"begin_ro_failed">>, TRUE)
      ELSE IF Len(m.nvs) # StateSize
        THEN fail("size", <<"begin_ro", "getBytesLength", "end">>, TRUE)
      ELSE IF NextIo(m) = "short"
        THEN fail("read", <<"begin_ro", "getBytesLength", "getBytes", "end">>, TRUE)
      ELSE IF state.magic # k_battery_state_magic \/ state.version # k_battery_state_version
        THEN fail("magic_version", <<"begin_ro", "getBytesLength", "getBytes", "end">>, TRUE)
      ELSE IF state.capacity_mah_x1 # CapacityX1(config)
        THEN fail("capacity", <<"begin_ro", "getBytesLength", "getBytes", "end">>, TRUE)
      ELSE IF state.crc32 # calc_crc32_le(m.nvs, CrcOffset)
        THEN fail("crc", <<"begin_ro", "getBytesLength", "getBytes", "end">>, TRUE)
      ELSE [ok |-> TRUE, value |-> RemainingOfX100(state.remaining_mah_x100),
            cause |-> "none",
            m |-> [m EXCEPT !.log = @ \o <<"begin_ro", "getBytesLength", "getBytes", "end">>,
                            !.io = RestIo(m),
                            !.load = [ok |-> TRUE, cause |-> "none",
                                      value |-> RemainingOfX100(state.remaining_mah_x100)]]]

\* save_remaining_capacity_to_nvs that returns on a short write without end()
save_remaining_capacity_to_nvs_Leaks(config, m, remaining_capacity_mah) ==
  IF ~is_nvs_enabled(config) THEN [ok |-> FALSE, m |-> m]
  ELSE IF NextIo(m) = "open_fail"
    THEN [ok |-> FALSE,
          m |-> [m EXCEPT !.log = @ \o <<"begin_rw_failed">>, !.io = RestIo(m)]]
  ELSE IF NextIo(m) = "short"
    THEN [ok |-> FALSE,
          m |-> [m EXCEPT !.log = @ \o <<"begin_rw", "putBytes_short">>,
                          !.io = RestIo(m)]]
  ELSE [ok |-> TRUE,
        m |-> [m EXCEPT !.nvs = StateBytes(EncodeState(config, remaining_capacity_mah)),
                        !.log = @ \o <<"begin_rw", "putBytes", "end">>,
                        !.io = RestIo(m)]]

\* save_remaining_capacity_to_nvs: [ok, m]
save_remaining_capacity_to_nvs(config, m, remaining_capacity_mah) ==
  IF ~is_nvs_enabled(config) THEN [ok |-> FALSE, m |-> m]
  ELSE IF NextIo(m) = "open_fail"
    THEN [ok |-> FALSE,
          m |-> [m EXCEPT !.log = @ \o <<"begin_rw_failed">>, !.io = RestIo(m)]]
  ELSE IF NextIo(m) = "short"
    THEN [ok |-> FALSE,
          m |-> [m EXCEPT !.log = @ \o <<"begin_rw", "putBytes_short", "end">>,
                          !.io = RestIo(m)]]
  ELSE [ok |-> TRUE,
        m |-> [m EXCEPT !.nvs = StateBytes(EncodeState(config, remaining_capacity_mah)),
                        !.log = @ \o <<"begin_rw", "putBytes", "end">>,
                        !.io = RestIo(m)]]

\* m after a call of maybe_save_to_nvs that started in state m and ended in
\* state after: the call is entered in checks with both states
Checked(m, after, now_ms, force, result) ==
  [after EXCEPT !.checks = Append(@,
     [ force |-> force, now_ms |-> now_ms, result |-> result,
       remaining |-> m.remaining, soc |-> m.soc,
       last_save |-> m.last_save, last_saved |-> m.last_saved,
       calls |-> Len(m.log),
       last_save_after |-> after.last_save, last_saved_after |-> after.last_saved,
       remaining_after |-> after.remaining, soc_after |-> after.soc,
       calls_after |-> Len(after.log), nvs_after |-> after.nvs ])]

\* fabs(remaining_capacity_mah_ - last_saved_remaining_capacity_mah_) < min_save_delta_mah
DeltaBelowMin(config, m) ==
  DLt(DAbs(DSub(m.remaining, m.last_saved)), config.min_save_delta_mah)

\* the save of maybe_save_to_nvs that leaves last_nvs_save_ms_ when it fails
SaveNow_FailKeepsStamp(config, m, now_ms, force) ==
  LET r == save_remaining_capacity_to_nvs(config, m, m.remaining)
  IN  IF r.ok
      THEN Checked(m, [r.m EXCEPT !.last_saved = m.remaining, !.last_save = now_ms],
                   now_ms, force, "saved")
      ELSE Checked(m, r.m, now_ms, force, "failed")

\* the save of maybe_save_to_nvs that leaves the saved value when it succeeds
SaveNow_KeepsSavedValue(config, m, now_ms, force) ==
  LET r == save_remaining_capacity_to_nvs(config, m, m.remaining)
  IN  IF r.ok
      THEN Checked(m, [r.m EXCEPT !.last_save = now_ms], now_ms, force, "saved")
      ELSE Checked(m, [r.m EXCEPT !.last_save = now_ms], now_ms, force, "failed")

\* the save of maybe_save_to_nvs, lines 383-393
SaveNow(config, m, now_ms, force) ==
  LET r == save_remaining_capacity_to_nvs(config, m, m.remaining)
  IN  IF r.ok
      THEN Checked(m, [r.m EXCEPT !.last_saved = m.remaining, !.last_save = now_ms],
                   now_ms, force, "saved")
      ELSE Checked(m, [r.m EXCEPT !.last_save = now_ms], now_ms, force, "failed")

\* maybe_save_to_nvs that saves when either threshold is reached
maybe_save_to_nvs_Either(config, m, now_ms, force) ==
  IF ~is_nvs_enabled(config)
    THEN Checked(m, m, now_ms, force, "disabled")
  ELSE IF ~force /\ Lt32(Sub32(now_ms, m.last_save), config.save_interval_ms)
               /\ m.last_saved # NaN /\ DeltaBelowMin(config, m)
    THEN Checked(m, m, now_ms, force, "interval")
  ELSE SaveNow(config, m, now_ms, force)

\* maybe_save_to_nvs that restarts the interval when it skips for the interval
maybe_save_to_nvs_StampOnSkip(config, m, now_ms, force) ==
  IF ~is_nvs_enabled(config)
    THEN Checked(m, m, now_ms, force, "disabled")
  ELSE IF ~force /\ Lt32(Sub32(now_ms, m.last_save), config.save_interval_ms)
    THEN Checked(m, [m EXCEPT !.last_save = now_ms], now_ms, force, "interval")
  ELSE IF ~force /\ m.last_saved # NaN /\ DeltaBelowMin(config, m)
    THEN Checked(m, [m EXCEPT !.last_save = now_ms], now_ms, force, "delta")
  ELSE SaveNow(config, m, now_ms, force)

\* maybe_save_to_nvs whose force skips the interval test only
maybe_save_to_nvs_ForceKeepsDelta(config, m, now_ms, force) ==
  IF ~is_nvs_enabled(config)
    THEN Checked(m, m, now_ms, force, "disabled")
  ELSE IF ~force /\ Lt32(Sub32(now_ms, m.last_save), config.save_interval_ms)
    THEN Checked(m, m, now_ms, force, "interval")
  ELSE IF m.last_saved # NaN /\ DeltaBelowMin(config, m)
    THEN Checked(m, [m EXCEPT !.last_save = now_ms], now_ms, force, "delta")
  ELSE SaveNow(config, m, now_ms, force)

\* maybe_save_to_nvs whose skip for the delta leaves last_nvs_save_ms_ as it was
maybe_save_to_nvs_DeltaKeepsStamp(config, m, now_ms, force) ==
  IF ~is_nvs_enabled(config)
    THEN Checked(m, m, now_ms, force, "disabled")
  ELSE IF ~force /\ Lt32(Sub32(now_ms, m.last_save), config.save_interval_ms)
    THEN Checked(m, m, now_ms, force, "interval")
  ELSE IF ~force /\ m.last_saved # NaN /\ DeltaBelowMin(config, m)
    THEN Checked(m, m, now_ms, force, "delta")
  ELSE SaveNow(config, m, now_ms, force)

\* maybe_save_to_nvs that writes as soon as the delta is reached
maybe_save_to_nvs_NoInterval(config, m, now_ms, force) ==
  IF ~is_nvs_enabled(config)
    THEN Checked(m, m, now_ms, force, "disabled")
  ELSE IF ~force /\ m.last_saved # NaN /\ DeltaBelowMin(config, m)
    THEN Checked(m, m, now_ms, force, "delta")
  ELSE SaveNow(config, m, now_ms, force)

maybe_save_to_nvs(config, m, now_ms, force) ==
  IF ~is_nvs_enabled(config)
    THEN Checked(m, m, now_ms, force, "disabled")
  ELSE IF ~force /\ Lt32(Sub32(now_ms, m.last_save), config.save_interval_ms)
    THEN Checked(m, m, now_ms, force, "interval")
  ELSE IF ~force /\ m.last_saved # NaN /\ DeltaBelowMin(config, m)
    THEN Checked(m, [m EXCEPT !.last_save = now_ms], now_ms, force, "delta")
  ELSE SaveNow(config, m, now_ms, force)

\* reset_state_from_voltage that sets the SOC and leaves the remaining capacity
reset_state_from_voltage_SocOnly(config, m, voltage_v) ==
  [m EXCEPT !.soc = get_soc_from_voltage(config, voltage_v)]

reset_state_from_voltage(config, m, voltage_v) ==
  LET soc == get_soc_from_voltage(config, voltage_v)
  IN  [m EXCEPT !.soc = soc, !.remaining = RemainingOfSoc(config, soc)]

clear_nvs_state(config, m) ==
  IF ~is_nvs_enabled(config) THEN m
  ELSE IF NextIo(m) = "open_fail"
    THEN [m EXCEPT !.log = @ \o <<"begin_rw_failed">>, !.io = RestIo(m)]
  ELSE IF NextIo(m) = "short"
    THEN [m EXCEPT !.log = @ \o <<"begin_rw", "clear_failed", "end">>, !.io = RestIo(m)]
  ELSE [m EXCEPT !.nvs = NoBlob, !.log = @ \o <<"begin_rw", "clear", "end">>,
                 !.io = RestIo(m)]
\* ------------------------------------------------------------------------
\* State
\* ------------------------------------------------------------------------
VARIABLES
  config_,                              \* Config config_
  remaining_capacity_mah_,              \* double
  soc_percent_,                         \* float
  sample_,                              \* Sample sample_
  last_time_ms_,                        \* uint32_t
  last_nvs_save_ms_,                    \* uint32_t
  last_saved_remaining_capacity_mah_,   \* double, NaN until begin
  nvs,                                  \* the blob in storage
  startup,                              \* the sampling loop of a begin that has not returned
  ready,                                \* a begin has returned true
  ops,                                  \* operations called so far
  call                                  \* the last operation: inputs, state before, storage calls

vars == << config_, remaining_capacity_mah_, soc_percent_, sample_, last_time_ms_,
           last_nvs_save_ms_, last_saved_remaining_capacity_mah_, nvs, startup,
           ready, ops, call >>

\* the fields and the storage as a record for the private methods
Fields(io) ==
  [ remaining  |-> remaining_capacity_mah_,
    soc        |-> soc_percent_,
    last_time  |-> last_time_ms_,
    last_save  |-> last_nvs_save_ms_,
    last_saved |-> last_saved_remaining_capacity_mah_,
    nvs        |-> nvs,
    io         |-> io,
    log        |-> <<>>,
    checks     |-> <<>>,
    load       |-> NoLoad ]

Store(m) ==
  /\ remaining_capacity_mah_' = m.remaining
  /\ soc_percent_' = m.soc
  /\ last_time_ms_' = m.last_time
  /\ last_nvs_save_ms_' = m.last_save
  /\ last_saved_remaining_capacity_mah_' = m.last_saved
  /\ nvs' = m.nvs

\* command input of update: NoByte when serial is null or has nothing available
NoByte == ""

\* a span of milliseconds below 2^31 as a number
Ms(u) == u[1] * Limb + u[2]

\* call.since is the time from the last storage write attempt of an update to
\* the last operation, as long as only updates without a command byte have
\* followed it, each less than 2^31 ms after the one before, and NoSpan
\* otherwise; Waited is that time at an operation offset ms after the last
NoSpan == -1

Waited(offset) ==
  IF call.since = NoSpan \/ offset[1] >= 32768 \/ call.since >= 1073741824
  THEN NoSpan
  ELSE call.since + Ms(offset)

\* the entry of an operation in call; offset is now_ms - last_time_ms_ as the
\* caller of update meant it; origin tells where the stored bytes come from
\* when something else than the operations of this run has put them there
Called(op, result, now_ms, offset, cmd, reading, m) ==
  [ op |-> op, result |-> result, now_ms |-> now_ms, offset |-> offset, cmd |-> cmd,
    reading |-> reading,
    pre |-> [ remaining  |-> remaining_capacity_mah_,
              soc        |-> soc_percent_,
              last_time  |-> last_time_ms_,
              last_save  |-> last_nvs_save_ms_,
              last_saved |-> last_saved_remaining_capacity_mah_,
              nvs        |-> nvs,
              sample     |-> sample_ ],
    log |-> m.log, checks |-> m.checks, load |-> m.load, origin |-> call.origin,
    waited |-> Waited(offset),
    since |-> IF op = "update" /\ cmd = NoByte
              THEN IF \E i \in DOMAIN m.checks :
                        m.checks[i].calls_after > m.checks[i].calls
                   THEN 0
                   ELSE Waited(offset)
              ELSE NoSpan ]

\* a reading of the sensor, four floats: the bus voltage of v thousandths of
\* a volt, the current of i mA, the shunt voltage that current gives on
\* 0.02 ohm (mV) and the power (mW)
Reading(v, i) ==
  [ bus_voltage_v    |-> F32OfMilli(v),
    shunt_voltage_mv |-> F32OfMilli(20 * i),
    current_ma       |-> F32OfInt(i),
    power_mw         |-> F32OfInt((v * Abs(i)) \div 1000) ]

NoReading == Reading(0, 0)

NaNSample ==
  [ bus_voltage_v |-> NaN, shunt_voltage_mv |-> NaN, current_ma |-> NaN,
    power_mw |-> NaN, power2_mw |-> NaN, remaining_capacity_mah |-> NaN,
    soc_percent |-> NaN ]

\* no begin is in its sampling loop
NoStartup == [ i |-> -1, total_voltage |-> F32Zero, voltages |-> <<>> ]

\* line 68: the number of startup samples
Samples ==
  IF config_.startup_voltage_samples > 0 THEN config_.startup_voltage_samples ELSE 1

\* ------------------------------------------------------------------------
\* Operations
\* ------------------------------------------------------------------------
\* begin that takes its timestamps before it looks for the sensor
begin_StampsFirst(sensor_ok, voltages, millis) ==
  IF ~sensor_ok
  THEN /\ call' = Called("begin", FALSE, millis, Zero32, NoByte, NoReading, Fields(<<>>))
       /\ ops' = ops + 1
       /\ last_time_ms_' = millis
       /\ last_nvs_save_ms_' = millis
       /\ UNCHANGED << config_, remaining_capacity_mah_, soc_percent_, sample_,
                       last_saved_remaining_capacity_mah_, nvs, startup, ready >>
  ELSE /\ startup' = [ i |-> 0, total_voltage |-> F32Zero, voltages |-> voltages ]
       /\ UNCHANGED << config_, remaining_capacity_mah_, soc_percent_, sample_,
                       last_time_ms_, last_nvs_save_ms_,
                       last_saved_remaining_capacity_mah_, nvs, ready, ops, call >>

\* bool begin(), lines 46-69, up to the sampling loop: sensor_ok is the
\* result of ina226_.begin(), voltages the successive results getBusVoltage()
\* is going to give, millis the time of the call
begin(sensor_ok, voltages, millis) ==
  IF ~sensor_ok
  THEN /\ call' = Called("begin", FALSE, millis, Zero32, NoByte, NoReading, Fields(<<>>))
       /\ ops' = ops + 1
       /\ UNCHANGED << config_, remaining_capacity_mah_, soc_percent_, sample_,
                       last_time_ms_, last_nvs_save_ms_,
                       last_saved_remaining_capacity_mah_, nvs, startup, ready >>
  ELSE /\ startup' = [ i |-> 0, total_voltage |-> F32Zero, voltages |-> voltages ]
       /\ UNCHANGED << config_, remaining_capacity_mah_, soc_percent_, sample_,
                       last_time_ms_, last_nvs_save_ms_,
                       last_saved_remaining_capacity_mah_, nvs, ready, ops, call >>

\* lines 70-77: one pass of the sampling loop of begin, a sample added to
\* total_voltage and the delay that follows it
begin_sample ==
  /\ startup.i >= 0
  /\ startup.i < Samples
  /\ startup' = [startup EXCEPT !.i = @ + 1,
                                !.total_voltage = F32Add(@, startup.voltages[startup.i + 1])]
  /\ UNCHANGED << config_, remaining_capacity_mah_, soc_percent_, sample_,
                  last_time_ms_, last_nvs_save_ms_,
                  last_saved_remaining_capacity_mah_, nvs, ready, ops, call >>

\* the rest of begin that does not seed the storage when the load fails
begin_rest_NoSeed(millis, io) ==
  /\ startup.i = Samples
  /\ \E startup_voltage_v \in {F32Div(startup.total_voltage, F32OfInt(Samples))} :
     \E soc \in {get_soc_from_voltage(config_, startup_voltage_v)} :
     \E loaded \in {load_remaining_capacity_from_nvs(config_,
                      [Fields(io) EXCEPT !.soc = soc,
                                         !.remaining = RemainingOfSoc(config_, soc)])} :
     \E m1 \in {IF loaded.ok
                THEN LET r == ClampRemaining(config_, loaded.value)
                     IN  [loaded.m EXCEPT !.remaining = r,
                                          !.soc = SocOfRemaining(config_, r)]
                ELSE loaded.m} :
     \E m2 \in {[m1 EXCEPT !.last_time = millis, !.last_save = millis,
                             !.last_saved = m1.remaining]} :
       /\ Store(m2)
       /\ sample_' = [sample_ EXCEPT !.bus_voltage_v = startup_voltage_v,
                                     !.remaining_capacity_mah = m2.remaining,
                                     !.soc_percent = m2.soc]
       /\ startup' = NoStartup
       /\ ready' = TRUE
       /\ ops' = ops + 1
       /\ call' = Called("begin", TRUE, millis, Zero32, NoByte,
                         [NoReading EXCEPT !.bus_voltage_v = startup_voltage_v], m2)
       /\ UNCHANGED config_

\* lines 79-118 of begin, after the sampling loop: millis is the value of
\* millis()
begin_rest(millis, io) ==
  /\ startup.i = Samples
  /\ \E startup_voltage_v \in {F32Div(startup.total_voltage, F32OfInt(Samples))} :
     \E soc \in {get_soc_from_voltage(config_, startup_voltage_v)} :
     \E loaded \in {load_remaining_capacity_from_nvs(config_,
                      [Fields(io) EXCEPT !.soc = soc,
                                         !.remaining = RemainingOfSoc(config_, soc)])} :
     \E m1 \in {IF loaded.ok
                THEN LET r == ClampRemaining(config_, loaded.value)
                     IN  [loaded.m EXCEPT !.remaining = r,
                                          !.soc = SocOfRemaining(config_, r)]
                ELSE IF is_nvs_enabled(config_)
                     THEN save_remaining_capacity_to_nvs(config_, loaded.m,
                                                         loaded.m.remaining).m
                     ELSE loaded.m} :
     \E m2 \in {[m1 EXCEPT !.last_time = millis, !.last_save = millis,
                             !.last_saved = m1.remaining]} :
       /\ Store(m2)
       /\ sample_' = [sample_ EXCEPT !.bus_voltage_v = startup_voltage_v,
                                     !.remaining_capacity_mah = m2.remaining,
                                     !.soc_percent = m2.soc]
       /\ startup' = NoStartup
       /\ ready' = TRUE
       /\ ops' = ops + 1
       /\ call' = Called("begin", TRUE, millis, Zero32, NoByte,
                         [NoReading EXCEPT !.bus_voltage_v = startup_voltage_v], m2)
       /\ UNCHANGED config_

IsClearCmd(cmd) == cmd = "c" \/ cmd = "C"

IsResetCmd(cmd) == cmd = "r" \/ cmd = "R"

\* the integrator with the sign of the delta reversed
Integrate_Adds(config, m, now_ms, effective_current_ma) ==
  LET elapsed_ms == Sub32(now_ms, m.last_time)
  IN  IF Lt32(Zero32, elapsed_ms)
      THEN LET r == ClampRemaining(config,
                      DAdd(m.remaining, MahDelta(effective_current_ma, elapsed_ms)))
           IN  [m EXCEPT !.remaining = r, !.soc = SocOfRemaining(config, r),
                         !.last_time = now_ms]
      ELSE m

\* lines 153-167: the integrator
Integrate(config, m, now_ms, effective_current_ma) ==
  LET elapsed_ms == Sub32(now_ms, m.last_time)
  IN  IF Lt32(Zero32, elapsed_ms)
      THEN LET r == ClampRemaining(config,
                      DSub(m.remaining, MahDelta(effective_current_ma, elapsed_ms)))
           IN  [m EXCEPT !.remaining = r, !.soc = SocOfRemaining(config, r),
                         !.last_time = now_ms]
      ELSE m

\* FullCharge whose save is left to the throttle
FullCharge_Unforced(config, m, now_ms, bus_voltage_v, abs_current_ma) ==
  IF F32Lt(config.full_charge_voltage_v, bus_voltage_v)
       /\ F32Lt(abs_current_ma, config.full_charge_current_ma)
  THEN maybe_save_to_nvs(config,
         [m EXCEPT !.remaining = DOfF32(config.battery_capacity_mah),
                   !.soc = FullSoc],
         now_ms, FALSE)
  ELSE m

\* lines 169-175: full-charge detection
FullCharge(config, m, now_ms, bus_voltage_v, abs_current_ma) ==
  IF F32Lt(config.full_charge_voltage_v, bus_voltage_v)
       /\ F32Lt(abs_current_ma, config.full_charge_current_ma)
  THEN maybe_save_to_nvs(config,
         [m EXCEPT !.remaining = DOfF32(config.battery_capacity_mah),
                   !.soc = FullSoc],
         now_ms, TRUE)
  ELSE m

\* the command byte, 'c' erasing after the save
Command_SaveThenClear(config, m, now_ms, cmd, bus_voltage_v) ==
  IF IsClearCmd(cmd)
  THEN clear_nvs_state(config,
         maybe_save_to_nvs(config, reset_state_from_voltage(config, m, bus_voltage_v),
                           now_ms, TRUE))
  ELSE IF IsResetCmd(cmd)
  THEN maybe_save_to_nvs(config, reset_state_from_voltage(config, m, bus_voltage_v),
                         now_ms, TRUE)
  ELSE m

\* lines 137-151: the command byte
Command(config, m, now_ms, cmd, bus_voltage_v) ==
  IF IsClearCmd(cmd)
  THEN maybe_save_to_nvs(config,
         reset_state_from_voltage(config, clear_nvs_state(config, m), bus_voltage_v),
         now_ms, TRUE)
  ELSE IF IsResetCmd(cmd)
  THEN maybe_save_to_nvs(config, reset_state_from_voltage(config, m, bus_voltage_v),
                         now_ms, TRUE)
  ELSE m

\* void update(uint32_t now_ms, Stream *serial): cmd is the byte serial has
\* available (NoByte: none), reading what the sensor returns; offset is not
\* used, it is kept in call
update(now_ms, offset, cmd, reading, io) ==
  \E current_ma \in {F32Mul(F32OfInt(config_.current_polarity), reading.current_ma)} :
  \E abs_current_ma \in {F32Abs(current_ma)} :
  \E effective_current_ma \in {IF F32Lt(abs_current_ma, config_.current_deadzone_ma)
                               THEN F32Zero ELSE current_ma} :
  \E m1 \in {Command(config_, Fields(io), now_ms, cmd, reading.bus_voltage_v)} :
  \E m2 \in {Integrate(config_, m1, now_ms, effective_current_ma)} :
  \E m3 \in {FullCharge(config_, m2, now_ms, reading.bus_voltage_v, abs_current_ma)} :
  \E m4 \in {maybe_save_to_nvs(config_, m3, now_ms, FALSE)} :
      /\ Store(m4)
      /\ sample_' = [ bus_voltage_v          |-> reading.bus_voltage_v,
                      shunt_voltage_mv       |-> reading.shunt_voltage_mv,
                      current_ma             |-> current_ma,
                      power_mw               |-> reading.power_mw,
                      power2_mw              |-> F32Mul(reading.bus_voltage_v,
                                                        abs_current_ma),
                      remaining_capacity_mah |-> m4.remaining,
                      soc_percent            |-> m4.soc ]
      /\ ops' = ops + 1
      /\ call' = Called("update", TRUE, now_ms, offset, cmd, reading, m4)
      /\ UNCHANGED << config_, startup, ready >>

\* a reset that publishes the new remaining capacity and SOC in the sample
Call_reset_state_from_voltage_Publishes(voltage_v) ==
  \E m \in {reset_state_from_voltage(config_, Fields(<<>>), voltage_v)} :
      /\ Store(m)
      /\ sample_' = [sample_ EXCEPT !.remaining_capacity_mah = m.remaining,
                                    !.soc_percent = m.soc]
      /\ ops' = ops + 1
      /\ call' = Called("reset_state_from_voltage", TRUE, Zero32, Zero32, NoByte,
                        [NoReading EXCEPT !.bus_voltage_v = voltage_v], m)
      /\ UNCHANGED << config_, startup, ready >>

\* a call of the public reset_state_from_voltage
Call_reset_state_from_voltage(voltage_v) ==
  \E m \in {reset_state_from_voltage(config_, Fields(<<>>), voltage_v)} :
      /\ Store(m)
      /\ ops' = ops + 1
      /\ call' = Called("reset_state_from_voltage", TRUE, Zero32, Zero32, NoByte,
                        [NoReading EXCEPT !.bus_voltage_v = voltage_v], m)
      /\ UNCHANGED << config_, sample_, startup, ready >>

\* a call of the public clear_nvs_state
Call_clear_nvs_state(io) ==
  \E m \in {clear_nvs_state(config_, Fields(io))} :
      /\ Store(m)
      /\ ops' = ops + 1
      /\ call' = Called("clear_nvs_state", TRUE, Zero32, Zero32, NoByte, NoReading, m)
      /\ UNCHANGED << config_, sample_, startup, ready >>

\* ------------------------------------------------------------------------
\* Inputs and the specification
\* ------------------------------------------------------------------------
\* operations per run
MaxOps == 3

\* a custom OCV table of three breakpoints
CustomTable == SocTable(<< <<12400, 100>>, <<11400, 50>>, <<9400, 0>> >>)

\* bytes left under the key by something else: a PersistedBatteryState with
\* any magic, version, capacity and remaining, a right or a wrong crc32, and
\* one byte less or more than the record
ForeignBytes(magic, version, capacity, x100, crc_ok, size) ==
  LET body == [ magic |-> magic, version |-> version, reserved |-> 0,
                capacity_mah_x1 |-> ToU32(capacity),
                remaining_mah_x100 |-> ToU32(x100), crc32 |-> Zero32 ]
      crc  == calc_crc32_le(StateBytes(body), CrcOffset)
      full == StateBytes([body EXCEPT !.crc32 =
                            IF crc_ok THEN crc ELSE Xor32(crc, <<0, 1>>)])
  IN  IF size < StateSize THEN SubSeq(full, 1, size)
      ELSE IF size > StateSize THEN full \o <<0>>
      ELSE full

\* what storage holds when the monitor is constructed: nothing, the record
\* an earlier run saved for 1234.56 mAh, or a valid record of 4000 mAh for
\* the capacity of 3000 mAh; the monitor without persistence is constructed
\* over the record of 1234.56 mAh
InitialBlobs(config) ==
  IF is_nvs_enabled(config)
  THEN { NoBlob, StateBytes(EncodeState(config, DOfRatio(123456, 100))),
         ForeignBytes(k_battery_state_magic, k_battery_state_version,
                      3000, 400000, TRUE, StateSize) }
  ELSE { StateBytes(EncodeState(config, DOfRatio(123456, 100))) }

\* every transaction of one operation meets the same storage condition
IoPlans == { <<o, o, o, o>> : o \in {"ok", "open_fail", "short"} }

AllOk == <<"ok", "ok", "ok", "ok">>

\* a successful begin: what getBusVoltage() returns, millis() at the end, and
\* the conditions of the storage. Five samples of 11.10 V with one of
\* 11.101 V among them, early after boot, on any storage; five samples around
\* 12.60 V, 500 ms before the counter wraps, on a working storage
Startups ==
  { [ voltages |-> << F32OfMilli(11100), F32OfMilli(11101), F32OfMilli(11100),
                      F32OfMilli(11100), F32OfMilli(11100) >>,
      millis   |-> ToU32(1000),
      plans    |-> IoPlans ],
    [ voltages |-> << F32OfMilli(12600), F32OfMilli(12590), F32OfMilli(12610),
                      F32OfMilli(12600), F32OfMilli(12600) >>,
      millis   |-> <<65535, 65036>>,
      plans    |-> {AllOk} ] }

\* voltages a caller resets from: a breakpoint of the built-in table, and a
\* voltage inside its top interval
ResetVoltages == { F32OfMilli(10200), F32OfMilli(12550) }

\* the calls of update: ticks without a command byte on a working storage
\* (at the same instant or one millisecond earlier with a discharge or a full
\* battery, after an interval with every reading, after an hour with 500 mA
\* either way), command bytes, and ticks on a failing storage
UpdateInputs ==
  [ offset : {Zero32, <<65535, 65535>>}, cmd : {NoByte},
    reading : {Reading(11100, 500), Reading(12550, 30)}, io : {AllOk} ]
    \cup [ offset : {ToU32(599999), ToU32(600000)}, cmd : {NoByte},
           reading : { Reading(11100, 0), Reading(11100, 500), Reading(12550, 30),
                       Reading(12550, -500) },
           io : {AllOk} ]
    \cup [ offset : {ToU32(3600000)}, cmd : {NoByte},
           reading : {Reading(11100, 500), Reading(12550, -500)}, io : {AllOk} ]
    \cup [ offset : {ToU32(1000)}, cmd : {"c", "R"},
           reading : {Reading(11100, 500)}, io : IoPlans ]
    \cup [ offset : {ToU32(1000)}, cmd : {"C", "r", "x"},
           reading : {Reading(11100, 500)}, io : {AllOk} ]
    \cup [ offset : {ToU32(600000)}, cmd : {NoByte},
           reading : {Reading(11100, 500), Reading(12550, 30)},
           io : IoPlans \ {AllOk} ]

\* lines 29-40: the state after construction with a configuration, over a
\* storage that holds blob
Constructed(config, blob) ==
  /\ config_ = config
  /\ remaining_capacity_mah_ = DOfF32(config.battery_capacity_mah)
  /\ soc_percent_ = FullSoc
  /\ sample_ = NaNSample
  /\ last_time_ms_ = Zero32
  /\ last_nvs_save_ms_ = Zero32
  /\ last_saved_remaining_capacity_mah_ = NaN
  /\ nvs = blob
  /\ startup = NoStartup
  /\ ready = FALSE
  /\ ops = 0
  /\ call = [ op |-> "construct", result |-> TRUE, now_ms |-> Zero32,
              offset |-> Zero32, cmd |-> NoByte,
              reading |-> NoReading,
              pre |-> [ remaining |-> NaN, soc |-> NaN, last_time |-> Zero32,
                        last_save |-> Zero32, last_saved |-> NaN, nvs |-> NoBlob,
                        sample |-> NaNSample ],
              log |-> <<>>, checks |-> <<>>, load |-> NoLoad, origin |-> [kind |-> "none", value |-> NaN, at |-> 0],
              waited |-> NoSpan, since |-> NoSpan ]

\* the monitor is constructed with the default configuration, or with one
\* that differs where a choice exists: reversed polarity, a custom table, a
\* single startup sample, no persistence
Init ==
  \E config \in { DefaultConfig,
                   [DefaultConfig EXCEPT !.current_polarity = -1,
                                         !.soc_table = CustomTable,
                                         !.startup_voltage_samples = 0,
                                         !.nvs_namespace = ""] } :
    \E blob \in InitialBlobs(config) : Constructed(config, blob)

\* begin is called until it succeeds (Uninitialized -> Ready); the other
\* operations are called on a Ready monitor, by the caller begin has returned
\* to
DoBegin ==
  /\ ops < MaxOps
  /\ ~ready
  /\ startup = NoStartup
  /\ \E sensor_ok \in BOOLEAN, s \in Startups :
       begin(sensor_ok, s.voltages, s.millis)

DoBeginRest ==
  \E s \in Startups :
    /\ s.voltages = startup.voltages
    /\ \E io \in s.plans : begin_rest(s.millis, io)

DoUpdate ==
  /\ ops < MaxOps
  /\ ready
  /\ \E in \in UpdateInputs :
       update(Add32(last_time_ms_, in.offset), in.offset, in.cmd, in.reading, in.io)

DoReset ==
  /\ ops < MaxOps
  /\ ready
  /\ \E voltage_v \in ResetVoltages : Call_reset_state_from_voltage(voltage_v)

DoClear ==
  /\ ops < MaxOps
  /\ ready
  /\ \E io \in IoPlans \ {<<"short", "short", "short", "short">>} :
       Call_clear_nvs_state(io)

\* a call of the public sample: a const method that returns a reference to
\* sample_
DoSample ==
  /\ ops < MaxOps
  /\ ready
  /\ ops' = ops + 1
  /\ call' = Called("sample", TRUE, Zero32, Zero32, NoByte, NoReading, Fields(<<>>))
  /\ UNCHANGED << config_, remaining_capacity_mah_, soc_percent_, sample_,
                  last_time_ms_, last_nvs_save_ms_,
                  last_saved_remaining_capacity_mah_, nvs, startup, ready >>

Next ==
  DoBegin \/ begin_sample \/ DoBeginRest \/ DoUpdate \/ DoReset \/ DoClear \/ DoSample

Spec == Init /\ [][Next]_vars

\* ------------------------------------------------------------------------
\* The stored record between two runs: an earlier run saves a remaining
\* capacity, or another firmware leaves its bytes, the flash may change one
\* byte, and this run begins
\* ------------------------------------------------------------------------
\* remaining capacities an earlier run saved: the ends of the range, values
\* of which the third decimal takes 0.01 mAh down or up, and a value of more
\* than 16 bits in 0.01 mAh
\* save_remaining_capacity_to_nvs of an earlier run with the same configuration
SaveRecord ==
  /\ call.op = "construct"
  /\ startup = NoStartup
  /\ \E r \in { DZero, DOfRatio(4, 1000), DOfRatio(5, 1000), DOfRatio(1005, 1000),
                DOfRatio(123456, 100), DOfRatio(1304245, 1000),
                DOfRatio(2999999, 1000), DOfInt(3000) } :
       \E res \in {save_remaining_capacity_to_nvs(config_, Fields(AllOk), r)} :
         /\ nvs' = res.m.nvs
         /\ call' = [Called("save", res.ok, Zero32, Zero32, NoByte, NoReading, res.m)
                       EXCEPT !.origin = [kind |-> "saved", value |-> r, at |-> 0]]
  /\ UNCHANGED << config_, remaining_capacity_mah_, soc_percent_, sample_,
                  last_time_ms_, last_nvs_save_ms_,
                  last_saved_remaining_capacity_mah_, startup, ready, ops >>

ForeignRecord ==
  /\ call.op = "construct"
  /\ startup = NoStartup
  /\ \E magic \in {k_battery_state_magic, <<16961, 21554>>},
        version \in {k_battery_state_version, 2},
        capacity \in {3000, 2000},
        x100 \in {123456, 400000},
        crc_ok \in BOOLEAN,
        size \in {StateSize - 1, StateSize, StateSize + 1} :
       /\ nvs' = ForeignBytes(magic, version, capacity, x100, crc_ok, size)
       /\ call' = [Called("foreign", TRUE, Zero32, Zero32, NoByte, NoReading,
                          Fields(AllOk))
                     EXCEPT !.origin = [kind |-> "foreign", value |-> NaN, at |-> 0]]
  /\ UNCHANGED << config_, remaining_capacity_mah_, soc_percent_, sample_,
                  last_time_ms_, last_nvs_save_ms_,
                  last_saved_remaining_capacity_mah_, startup, ready, ops >>

\* one byte of a saved record takes another value (the records of 1234.56 mAh
\* and of the full capacity)
Damage ==
  /\ call.op = "save"
  /\ call.result
  /\ call.origin.value \in {DOfRatio(123456, 100), DOfInt(3000)}
  /\ startup = NoStartup
  /\ \E at \in 1..StateSize, byte \in 0..255 :
       /\ byte # nvs[at]
       /\ nvs' = [nvs EXCEPT ![at] = byte]
       /\ call' = [Called("damage", TRUE, Zero32, Zero32, NoByte, NoReading,
                          Fields(AllOk))
                     EXCEPT !.origin = [kind |-> "damaged",
                                        value |-> call.origin.value, at |-> at]]
  /\ UNCHANGED << config_, remaining_capacity_mah_, soc_percent_, sample_,
                  last_time_ms_, last_nvs_save_ms_,
                  last_saved_remaining_capacity_mah_, startup, ready, ops >>

\* begin of this run, the sensor present
Boot ==
  /\ ~ready
  /\ startup = NoStartup
  /\ \E s \in Startups : s.millis = ToU32(1000) /\ begin(TRUE, s.voltages, s.millis)

BootRest ==
  \E io \in IoPlans : begin_rest(ToU32(1000), io)

NextNvs == SaveRecord \/ ForeignRecord \/ Damage \/ Boot \/ begin_sample \/ BootRest

\* the monitor of this run: the defaults with a single startup sample, over
\* an empty storage
InitNvs == Constructed([DefaultConfig EXCEPT !.startup_voltage_samples = 1], NoBlob)

SpecNvs == InitNvs /\ [][NextNvs]_vars

\* ------------------------------------------------------------------------
\* The estimator over the range of voltages, for the built-in table and for
\* tables of the user
\* ------------------------------------------------------------------------
\* the monitor constructed with the built-in table or a table of its own:
\* CustomTable, three breakpoints with 100 percent at the top and 0 at the
\* bottom, or the two breakpoints {4.0f, 100.0f}, {1.09f, 0.0f}
InitOcv ==
  \E t \in { SocTable(<< <<hv, 100>>, <<mv, mp>>, <<lv, 0>> >>) :
               hv \in {10100, 12600}, mv \in {9500, 9600},
               lv \in {9000, 9200}, mp \in {50, 98} }
             \cup {NullTable, CustomTable,
                   SocTable(<< <<4000, 100>>, <<1090, 0>> >>)} :
    Constructed([DefaultConfig EXCEPT !.soc_table = t], NoBlob)

\* voltages to estimate from: every breakpoint of the table in use, the float
\* below it and the float above it, and 8.00 V to 13.00 V by 0.25 V
OcvVoltages ==
  LET table == TableOf(config_)
      \* the next float above a > 0, and the next below
      succ(a) == IF a[1] + 1 = 2 ^ 24 THEN <<2 ^ 23, a[2] + 1>> ELSE <<a[1] + 1, a[2]>>
      pred(a) == IF a[1] = 2 ^ 23 THEN <<2 ^ 24 - 1, a[2] - 1>> ELSE <<a[1] - 1, a[2]>>
  IN  UNION { { pred(table[i].voltage_v), table[i].voltage_v,
                succ(table[i].voltage_v) } : i \in DOMAIN table }
        \cup { F32OfMilli(8000 + 250 * k) : k \in 0..20 }

\* get_soc_from_voltage is const: two calls of it, at a voltage and at a
\* voltage not below it, change no field
EstimatePair ==
  /\ call.op = "construct"
  /\ \E lower \in OcvVoltages, upper \in OcvVoltages :
       /\ F32Le(lower, upper)
       /\ call' = [ op |-> "get_soc_from_voltage",
                    lower |-> lower, upper |-> upper,
                    soc_lower |-> get_soc_from_voltage(config_, lower),
                    soc_upper |-> get_soc_from_voltage(config_, upper) ]
  /\ UNCHANGED << config_, remaining_capacity_mah_, soc_percent_, sample_,
                  last_time_ms_, last_nvs_save_ms_,
                  last_saved_remaining_capacity_mah_, nvs, startup, ready, ops >>

\* reset_state_from_voltage called on the constructed monitor, at one of the
\* voltages
ResetAt ==
  /\ call.op = "construct"
  /\ \E voltage_v \in OcvVoltages : Call_reset_state_from_voltage(voltage_v)

SpecOcv == InitOcv /\ [][EstimatePair \/ ResetAt]_vars

\* ------------------------------------------------------------------------
\* update called again and again: ticks without a command byte on a working
\* storage, 200 s or 300 s after the tick before, discharging, idle or
\* charging
\* ------------------------------------------------------------------------
\* operations per run of ticks
LiveOps == 5

Tick ==
  /\ ready
  /\ ops < LiveOps
  /\ \E offset \in { ToU32(200000), ToU32(300000) },
        reading \in { Reading(11100, 500), Reading(11100, 0), Reading(11100, -500) } :
       update(Add32(last_time_ms_, offset), offset, NoByte, reading, AllOk)

NextLive == Boot \/ begin_sample \/ BootRest \/ Tick

\* a step of Tick seen from outside: update is total, so wherever the guard
\* of Tick holds a tick can be taken, and begin never runs once ready holds
TickTaken ==
  /\ ready
  /\ ops < LiveOps
  /\ ops' = ops + 1

\* the caller of the library calls update again and again, and update
\* always returns: a tick that can be taken is taken
SpecLive == Init /\ [][NextLive]_vars /\ WF_ops(TickTaken)

\* static_cast<double>(config_.battery_capacity_mah)
Capacity == DOfF32(config_.battery_capacity_mah)

\* C1: at the return of every operation, 0 <= remaining <= capacity, as
\* doubles; a reset_state_from_voltage on an estimate above 100 percent
\* leaves more than the capacity
C1_RemainingInRange ==
  /\ ~DLt(remaining_capacity_mah_, DZero)
  /\ ~DLt(Capacity, remaining_capacity_mah_)

\* C2: once begin has succeeded, soc is remaining / capacity * 100, computed
\* in double precision and converted to float
C2_SocFollowsRemaining ==
  ready => soc_percent_ = SocOfRemaining(config_, remaining_capacity_mah_)

\* a reset from a voltage between two breakpoints: the SOC comes from the
\* table, the remaining capacity from the SOC
C2_Witness ==
  /\ ready
  /\ call.op = "reset_state_from_voltage"
  /\ call.reading.bus_voltage_v = F32OfMilli(12550)
  /\ soc_percent_ # call.pre.soc
  /\ F32Lt(F32OfInt(98), soc_percent_)
  /\ F32Lt(soc_percent_, F32OfInt(99))

\* line 130: sample_.current_ma of the last update, the current with the
\* polarity applied
Corrected == sample_.current_ma

\* line 133: fabsf(sample_.current_ma)
AbsCorrected == F32Abs(Corrected)

\* line 135: the current the integrator uses
Effective ==
  IF F32Lt(AbsCorrected, config_.current_deadzone_ma) THEN F32Zero ELSE Corrected

\* line 169: the full-charge condition of the last update
FullChargeCond ==
  /\ F32Lt(config_.full_charge_voltage_v, call.reading.bus_voltage_v)
  /\ F32Lt(AbsCorrected, config_.full_charge_current_ma)

\* the calls of maybe_save_to_nvs made by the last operation
SaveChecks == { call.checks[i] : i \in DOMAIN call.checks }

\* the Preferences calls a save check made
StorageCalls(e) == SubSeq(call.log, e.calls + 1, e.calls_after)

\* a save check went as far as the storage
Attempted(e) ==
  /\ e.result \in {"saved", "failed"}
  /\ e.calls_after > e.calls
  /\ StorageCalls(e)[1] \in {"begin_rw", "begin_rw_failed"}
  /\ e.last_save_after = e.now_ms
  /\ e.result = "saved" =>
       /\ StorageCalls(e) = <<"begin_rw", "putBytes", "end">>
       /\ e.nvs_after = StateBytes(EncodeState(config_, e.remaining))
       /\ e.last_saved_after = e.remaining
  /\ e.result = "failed" =>
       /\ StorageCalls(e) \in {<<"begin_rw_failed">>, <<"begin_rw", "putBytes_short", "end">>}
       /\ e.last_saved_after = e.last_saved

\* C3: an update whose bus voltage is above full_charge_voltage_v and whose
\* absolute corrected current is below full_charge_current_ma ends with
\* remaining = capacity and soc = 100, published in the sample, and with
\* persistence enabled it makes a forced save of the capacity whatever the
\* throttle state; the integration of the tick has run before
C3_FullChargeForcesSave ==
  (call.op = "update" /\ FullChargeCond) =>
    /\ remaining_capacity_mah_ = Capacity
    /\ soc_percent_ = FullSoc
    /\ sample_.remaining_capacity_mah = Capacity
    /\ sample_.soc_percent = FullSoc
    /\ call.offset # Zero32 => last_time_ms_ = call.now_ms
    /\ is_nvs_enabled(config_) =>
         \E e \in SaveChecks :
           /\ e.force
           /\ e.remaining = Capacity
           /\ e.now_ms = call.now_ms
           /\ Attempted(e)

\* a full-charge tick that first integrates a discharge from below the
\* capacity, 599999 ms after the last save and less than min_save_delta_mah
\* from the saved value, and writes the capacity
C3_Witness ==
  /\ call.op = "update"
  /\ FullChargeCond
  /\ is_nvs_enabled(config_)
  /\ Corrected = F32OfInt(30)
  /\ call.offset = ToU32(599999)
  /\ \E e \in SaveChecks :
       /\ e.force
       /\ e.result = "saved"
       /\ Lt32(Sub32(e.now_ms, e.last_save), config_.save_interval_ms)
       /\ e.last_saved = Capacity
       /\ e.nvs_after = StateBytes(EncodeState(config_, Capacity))
  /\ nvs = StateBytes(EncodeState(config_, Capacity))

\* the interval of a save check has elapsed
IntervalElapsed(e) ==
  ~Lt32(Sub32(e.now_ms, e.last_save), config_.save_interval_ms)

\* the remaining capacity of a save check is min_save_delta_mah or more from
\* the saved value
DeltaReached(e) ==
  /\ e.last_saved # NaN
  /\ ~DLt(DAbs(DSub(e.remaining, e.last_saved)), config_.min_save_delta_mah)

\* C4 as stated: a non-forced save check writes as soon as one of the two
\* thresholds is reached
C4_EitherThresholdWrites ==
  \A e \in SaveChecks :
    (~e.force /\ is_nvs_enabled(config_)) =>
      /\ IntervalElapsed(e) => Attempted(e)
      /\ DeltaReached(e) => Attempted(e)

\* C4: a non-forced save check goes to the storage exactly when the interval
\* has elapsed and the remaining capacity is min_save_delta_mah or more from
\* the saved value (or nothing has been saved yet); with the interval alone it
\* restarts the interval and writes nothing, with the delta alone it does
\* nothing
C4_BothThresholdsWrite ==
  \A e \in SaveChecks :
    (~e.force /\ is_nvs_enabled(config_)) =>
      /\ (IntervalElapsed(e) /\ (e.last_saved = NaN \/ DeltaReached(e))) => Attempted(e)
      /\ (IntervalElapsed(e) /\ e.last_saved # NaN /\ ~DeltaReached(e)) =>
           /\ e.result = "delta"
           /\ e.calls_after = e.calls
           /\ e.last_save_after = e.now_ms
           /\ e.last_saved_after = e.last_saved
      /\ ~IntervalElapsed(e) =>
           /\ e.result = "interval"
           /\ e.calls_after = e.calls

\* a tick 600000 ms after the last save that has discharged 83 mAh and more,
\* and writes
C4_Witness ==
  /\ call.op = "update"
  /\ call.cmd = NoByte
  /\ \E e \in SaveChecks :
       /\ ~e.force
       /\ IntervalElapsed(e)
       /\ DeltaReached(e)
       /\ e.result = "saved"
       /\ nvs = StateBytes(EncodeState(config_, e.remaining))
       /\ nvs # call.pre.nvs

\* C5: a non-forced save check made less than save_interval_ms (modulo 2^32)
\* after the last save makes no storage call and leaves last_nvs_save_ms_,
\* the saved value and the stored record as they were, whatever the change
\* of the remaining capacity
C5_IntervalSkipsSilently ==
  \A e \in SaveChecks :
    (~e.force /\ is_nvs_enabled(config_)
       /\ Lt32(Sub32(e.now_ms, e.last_save), config_.save_interval_ms)) =>
      /\ e.result = "interval"
      /\ e.calls_after = e.calls
      /\ e.last_save_after = e.last_save
      /\ e.last_saved_after = e.last_saved
      /\ e.remaining_after = e.remaining

\* a tick 599999 ms after the last save, the remaining capacity 83 mAh below
\* the saved value: nothing is written
C5_Witness ==
  /\ call.op = "update"
  /\ call.offset = ToU32(599999)
  /\ nvs = call.pre.nvs
  /\ last_nvs_save_ms_ = call.pre.last_save
  /\ \E e \in SaveChecks :
       /\ ~e.force
       /\ e.result = "interval"
       /\ DeltaReached(e)
       /\ e.remaining # call.pre.remaining

\* C6: a forced save check with persistence enabled always goes to the
\* storage with the current remaining capacity, whatever the time since the
\* last save and the distance from the saved value
C6_ForcedAlwaysAttempts ==
  \A e \in SaveChecks :
    (e.force /\ is_nvs_enabled(config_)) => Attempted(e)

\* a forced save at the very time of the last save, of the very value saved
C6_Witness ==
  \E e \in SaveChecks :
    /\ e.force
    /\ is_nvs_enabled(config_)
    /\ Sub32(e.now_ms, e.last_save) = Zero32
    /\ e.last_saved = e.remaining
    /\ e.result = "saved"
    /\ StorageCalls(e) = <<"begin_rw", "putBytes", "end">>

\* the last operation is a tick of update with no command byte and no
\* full-charge condition
PlainTick == call.op = "update" /\ call.cmd = NoByte /\ ~FullChargeCond

\* line 153 with a counter that has wrapped: the previous timestamp is in the
\* last 2^31 ms before 2^32, now_ms = (last + d) mod 2^32 is below it, d small
Wrapped ==
  /\ call.op = "update"
  /\ call.pre.last_time[1] >= 32768
  /\ Lt32(call.now_ms, call.pre.last_time)
  /\ call.offset # Zero32
  /\ call.offset[1] < 32768

\* lines 154-163: the remaining capacity the integrator leaves for an
\* elapsed time: untouched, clamps included, when no time has passed, else
\* remaining - I * (T / 3600000.0) in double precision, brought into
\* 0..capacity
Integrated(elapsed_ms) ==
  LET hours_passed == DDiv(DOfU32(elapsed_ms), MsPerHour)
      lowered      == DSub(call.pre.remaining, DMul(DOfF32(Effective), hours_passed))
      floored      == IF DLt(lowered, DZero) THEN DZero ELSE lowered
  IN  IF elapsed_ms = Zero32 THEN call.pre.remaining
      ELSE IF DLt(Capacity, floored) THEN Capacity ELSE floored

\* C7 as stated: a tick whose timestamp is equal to the previous one, or
\* earlier by less than 2^31 ms, changes neither the remaining capacity nor the SOC nor
\* last_time_ms_, and refreshes the voltage, shunt voltage, current and power
\* of the sample
C7_NoIntegrationUnlessAdvanced ==
  ( /\ PlainTick
    /\ \/ call.now_ms = call.pre.last_time
       \/ Sub32(call.pre.last_time, call.now_ms)[1] < 32768 ) =>
    /\ remaining_capacity_mah_ = call.pre.remaining
    /\ soc_percent_ = call.pre.soc
    /\ last_time_ms_ = call.pre.last_time
    /\ sample_.bus_voltage_v = call.reading.bus_voltage_v
    /\ sample_.shunt_voltage_mv = call.reading.shunt_voltage_mv
    /\ sample_.current_ma =
         F32Mul(F32OfInt(config_.current_polarity), call.reading.current_ma)
    /\ sample_.power_mw = call.reading.power_mw

\* C8: when the millisecond counter has wrapped between two ticks, d ms
\* apart, update stamps the tick, integrates over d ms, and a save check that
\* measures from the previous tick compares d with save_interval_ms
C8_WrapSafeElapsed ==
  Wrapped =>
    /\ last_time_ms_ = call.now_ms
    /\ (call.cmd = NoByte /\ ~FullChargeCond) =>
         remaining_capacity_mah_ = Integrated(call.offset)
    /\ \A e \in SaveChecks :
         (~e.force /\ is_nvs_enabled(config_) /\ e.last_save = call.pre.last_time) =>
           (e.result = "interval" <=> Lt32(call.offset, config_.save_interval_ms))

\* the counter wraps during an interval of 600000 ms with a discharge of
\* 500 mA: the tick takes 83 mAh and more from the remaining capacity and
\* the save check, made from the previous tick, writes
C8_Witness ==
  /\ Wrapped
  /\ call.cmd = NoByte
  /\ call.offset = ToU32(600000)
  /\ Effective = F32OfInt(500)
  /\ call.pre.last_save = call.pre.last_time
  /\ DLt(DZero, remaining_capacity_mah_)
  /\ DLt(remaining_capacity_mah_, call.pre.remaining)
  /\ \E e \in SaveChecks : ~e.force /\ e.result = "saved"

\* C9: a tick T > 0 ms after the previous one, with no command byte and no
\* full-charge condition, leaves
\* remaining = clamp(remaining before - I * T / 3600000, 0, capacity), I the
\* effective current, in the double precision of the code; a current inside
\* the deadzone leaves it as it was
C9_IntegratorFormula ==
  (PlainTick /\ call.offset # Zero32) =>
    /\ remaining_capacity_mah_ = Integrated(call.offset)
    /\ F32Lt(AbsCorrected, config_.current_deadzone_ma) =>
         remaining_capacity_mah_ = call.pre.remaining

\* a discharge of 500 mA for 599999 ms from the 1500.199 mAh of a begin at
\* 11.1002 V: 83.333 mAh are taken, and nothing is clamped
C9_Witness ==
  /\ PlainTick
  /\ call.offset = ToU32(599999)
  /\ Effective = F32OfInt(500)
  /\ DLt(DOfInt(1500), call.pre.remaining)
  /\ DLt(call.pre.remaining, DOfInt(1501))
  /\ DLt(DOfInt(1416), remaining_capacity_mah_)
  /\ DLt(remaining_capacity_mah_, DOfInt(1417))

\* the scenario of C10: capacity 3000 mAh, 3600000 ms, and at least 500 mAh
\* to start from
HourTick ==
  /\ PlainTick
  /\ call.offset = ToU32(3600000)
  /\ config_.battery_capacity_mah = F32OfInt(3000)
  /\ ~F32Lt(AbsCorrected, config_.current_deadzone_ma)
  /\ ~DLt(call.pre.remaining, DOfInt(500))

\* C10 as stated: a current of -500 mA held for 3600000 ms takes exactly
\* 500 mAh from the remaining capacity
C10_MinusFiveHundredDrops ==
  (HourTick /\ Corrected = F32OfInt(-500)) =>
    remaining_capacity_mah_ = DSub(call.pre.remaining, DOfInt(500))

\* C10: it is a corrected current of +500 mA held for 3600000 ms that takes
\* exactly 500 mAh; a corrected current of -500 mA adds 500 mAh, up to the
\* capacity
C10_PlusFiveHundredDrops ==
  /\ (HourTick /\ Corrected = F32OfInt(500)) =>
       remaining_capacity_mah_ = DSub(call.pre.remaining, DOfInt(500))
  /\ (HourTick /\ Corrected = F32OfInt(-500)) =>
       remaining_capacity_mah_ =
         IF DLt(DOfInt(3000), DAdd(call.pre.remaining, DOfInt(500)))
         THEN DOfInt(3000)
         ELSE DAdd(call.pre.remaining, DOfInt(500))

\* an hour at a raw current of -500 mA with current_polarity = -1, from the
\* estimate of begin on the custom table
C10_Witness ==
  /\ HourTick
  /\ config_.current_polarity = -1
  /\ call.reading.current_ma = F32OfInt(-500)
  /\ DLt(DOfInt(1000), call.pre.remaining)
  /\ remaining_capacity_mah_ = DSub(call.pre.remaining, DOfInt(500))

\* the four checks of a stored record, read from its bytes: the length, the
\* magic "1TAB" and the version 1, the capacity, the crc32 of the first 16
SizeOk(blob) == Len(blob) = StateSize

MagicVersionOk(blob) == SubSeq(blob, 1, 6) = <<49, 84, 65, 66, 1, 0>>

CapacityOk(blob) == SubSeq(blob, 9, 12) = Bytes32(CapacityX1(config_))

CrcOk(blob) == SubSeq(blob, 17, 20) = Bytes32(calc_crc32_le(blob, CrcOffset))

AllChecksPass(blob) ==
  SizeOk(blob) /\ MagicVersionOk(blob) /\ CapacityOk(blob) /\ CrcOk(blob)

\* the last operation is a begin that went on to the load, persistence enabled
BeginLoaded == call.op = "begin" /\ call.result /\ is_nvs_enabled(config_)

\* the storage gave the bytes it holds to the load
StorageRead == call.load.cause \notin {"disabled", "open", "read", "not_called"}

\* lines 80-81, 190-191: the remaining capacity the estimator gives for the
\* voltage of the last operation, the mean of the samples of begin or the bus
\* voltage of a reset
EstimatedRemaining ==
  RemainingOfSoc(config_, get_soc_from_voltage(config_, call.reading.bus_voltage_v))

\* C11: the load of begin succeeds only if the stored bytes have the size of
\* the record, its magic and version, the configured capacity and the crc32
\* of the bytes before it, and it does succeed then if the storage can be
\* read; when it fails the remaining capacity is the estimate from the
\* voltage, not the stored value
C11_LoadNeedsAllChecks ==
  BeginLoaded =>
    /\ call.load.ok => AllChecksPass(call.pre.nvs)
    /\ (StorageRead /\ AllChecksPass(call.pre.nvs)) => call.load.ok
    /\ ~call.load.ok =>
         /\ remaining_capacity_mah_ = EstimatedRemaining
         /\ soc_percent_ = get_soc_from_voltage(config_, call.reading.bus_voltage_v)

\* a record of 1234.56 mAh with everything right but the crc32: begin keeps
\* the 1500 mAh of 11.10 V
C11_Witness ==
  /\ BeginLoaded
  /\ call.origin.kind = "foreign"
  /\ SizeOk(call.pre.nvs)
  /\ MagicVersionOk(call.pre.nvs)
  /\ CapacityOk(call.pre.nvs)
  /\ ~CrcOk(call.pre.nvs)
  /\ SubSeq(call.pre.nvs, 13, 16) = Bytes32(ToU32(123456))
  /\ ~call.load.ok
  /\ remaining_capacity_mah_ = DOfInt(1500)

\* C12: the cause of a failed load is that of the first check that fails, in
\* the order length, magic/version, capacity, crc32; a record of the right
\* length, magic and version with another capacity is refused for its
\* capacity whatever its crc32
C12_FirstFailingCheckDecides ==
  (BeginLoaded /\ StorageRead) =>
    /\ call.load.cause =
         IF ~SizeOk(call.pre.nvs) THEN "size"
         ELSE IF ~MagicVersionOk(call.pre.nvs) THEN "magic_version"
         ELSE IF ~CapacityOk(call.pre.nvs) THEN "capacity"
         ELSE IF ~CrcOk(call.pre.nvs) THEN "crc"
         ELSE "none"
    /\ ( /\ SizeOk(call.pre.nvs)
         /\ MagicVersionOk(call.pre.nvs)
         /\ ~CapacityOk(call.pre.nvs) ) => call.load.cause = "capacity"

\* a record of capacity 2000 with a wrong crc32 as well
C12_Witness ==
  /\ BeginLoaded
  /\ SizeOk(call.pre.nvs)
  /\ MagicVersionOk(call.pre.nvs)
  /\ SubSeq(call.pre.nvs, 9, 12) = Bytes32(ToU32(2000))
  /\ ~CrcOk(call.pre.nvs)
  /\ call.load.cause = "capacity"

\* C13: begin, with the capacity an earlier run had, loads the record that
\* run saved for r, 0 <= r <= capacity, and the value loaded is within
\* 0.01 mAh of r
C13_RoundTrip ==
  (BeginLoaded /\ StorageRead /\ call.origin.kind = "saved") =>
    /\ call.load.ok
    /\ ~DLt(DOfRatio(1, 100), DAbs(DSub(call.load.value, call.origin.value)))
    /\ remaining_capacity_mah_ = call.load.value

\* 1304.245 mAh saved, of which the double is below 1304.245 and 100 times
\* the double below 130424.5: 1304.24 mAh loaded
C13_Witness ==
  /\ BeginLoaded
  /\ call.origin.kind = "saved"
  /\ call.origin.value = DOfRatio(1304245, 1000)
  /\ call.load.ok
  /\ call.load.value = DOfRatio(130424, 100)
  /\ remaining_capacity_mah_ = DOfRatio(130424, 100)

\* C14: after any change of one byte of a saved record the load fails, for
\* the magic or the version when the byte is in one of them, for the capacity
\* when it is in the capacity, and for the crc32 when it is in the reserved
\* field, the remaining capacity or the crc32
C14_OneByteChangeRejected ==
  (BeginLoaded /\ StorageRead /\ call.origin.kind = "damaged") =>
    /\ ~call.load.ok
    /\ call.load.cause =
         IF call.origin.at <= 6 THEN "magic_version"
         ELSE IF call.origin.at \in 9..12 THEN "capacity"
         ELSE "crc"
    /\ remaining_capacity_mah_ = EstimatedRemaining

\* the top byte of the remaining capacity of a record of 1234.56 mAh changed
C14_Witness ==
  /\ BeginLoaded
  /\ call.origin.kind = "damaged"
  /\ call.origin.at = 16
  /\ call.origin.value = DOfRatio(123456, 100)
  /\ call.load.cause = "crc"
  /\ remaining_capacity_mah_ = DOfInt(1500)

\* C15: a begin that does not find the sensor returns false and leaves the
\* remaining capacity, the SOC, the sample, the timestamps and the storage as
\* they were, having read no voltage and made no call to the storage
C15_SensorFailureChangesNothing ==
  (call.op = "begin" /\ ~call.result) =>
    /\ ~ready
    /\ remaining_capacity_mah_ = call.pre.remaining
    /\ soc_percent_ = call.pre.soc
    /\ sample_ = call.pre.sample
    /\ last_time_ms_ = call.pre.last_time
    /\ last_nvs_save_ms_ = call.pre.last_save
    /\ last_saved_remaining_capacity_mah_ = call.pre.last_saved
    /\ nvs = call.pre.nvs
    /\ call.log = <<>>
    /\ call.checks = <<>>
    /\ call.load = NoLoad

\* begin fails at millis() = 1000 over a store that holds a record
C15_Witness ==
  /\ call.op = "begin"
  /\ ~call.result
  /\ call.now_ms = ToU32(1000)
  /\ is_nvs_enabled(config_)
  /\ Len(nvs) = StateSize
  /\ last_time_ms_ = Zero32
  /\ sample_ = NaNSample
  /\ remaining_capacity_mah_ = Capacity

\* the number of times the last operation opened the storage for writing
WriteAttempts ==
  Cardinality({ i \in DOMAIN call.log : call.log[i] \in {"begin_rw", "begin_rw_failed"} })

\* C16: a begin that finds the sensor returns true; when its load succeeds
\* with r the remaining capacity is r clamped to 0..capacity, the SOC follows
\* and nothing is written; when the load fails and persistence is enabled,
\* one write of the estimate from the voltage is attempted, and the estimate
\* stays whether the write succeeds or fails
C16_BeginLoadsOrSeeds ==
  (call.op = "begin" /\ is_nvs_enabled(config_)) =>
    /\ call.result
    /\ ready
    /\ call.load.ok =>
         /\ remaining_capacity_mah_ =
              IF DLt(Capacity, call.load.value) THEN Capacity ELSE call.load.value
         /\ soc_percent_ = SocOfRemaining(config_, remaining_capacity_mah_)
         /\ call.log = <<"begin_ro", "getBytesLength", "getBytes", "end">>
         /\ WriteAttempts = 0
         /\ nvs = call.pre.nvs
    /\ ~call.load.ok =>
         /\ remaining_capacity_mah_ = EstimatedRemaining
         /\ soc_percent_ = get_soc_from_voltage(config_, call.reading.bus_voltage_v)
         /\ WriteAttempts = 1
         /\ \/ nvs = StateBytes(EncodeState(config_, EstimatedRemaining))
            \/ /\ nvs = call.pre.nvs
               /\ \E i \in DOMAIN call.log :
                    call.log[i] \in {"begin_rw_failed", "putBytes_short"}

\* no record in the store and a write that falls short: begin succeeds with
\* the 1500 mAh of 11.10 V and the store stays empty
C16_Witness ==
  /\ call.op = "begin"
  /\ ready
  /\ call.load.cause = "size"
  /\ call.log = <<"begin_ro", "getBytesLength", "end", "begin_rw", "putBytes_short", "end">>
  /\ nvs = NoBlob
  /\ remaining_capacity_mah_ = DOfInt(1500)

\* the places in the log of the last operation where the storage is erased
Erases == { i \in DOMAIN call.log : call.log[i] \in {"clear", "clear_failed"} }

\* a tick of update with a command byte and no full-charge condition
CommandTick == call.op = "update" /\ call.cmd # NoByte /\ ~FullChargeCond

\* C17: 'c' or 'C' erases the storage once, before anything is written, then
\* resets from the bus voltage and makes a forced save of the reset value;
\* 'r' or 'R' resets and makes the forced save without erasing; any other
\* byte erases nothing, resets nothing and forces no save, and the tick
\* integrates from the remaining capacity it started with, as a tick with no
\* byte does
C17_CommandByte ==
  CommandTick =>
    /\ (IsClearCmd(call.cmd) /\ is_nvs_enabled(config_)) =>
         /\ call.log[1] \in {"begin_rw", "begin_rw_failed"}
         /\ call.log[1] = "begin_rw" => (Erases = {2} /\ call.log[3] = "end")
         /\ call.log[1] = "begin_rw_failed" => Erases = {}
         /\ \A i \in Erases, j \in DOMAIN call.log :
              call.log[j] \in {"putBytes", "putBytes_short"} => i < j
    /\ (IsClearCmd(call.cmd) \/ IsResetCmd(call.cmd)) =>
         /\ Len(call.checks) = 2
         /\ call.checks[1].force
         /\ call.checks[1].remaining = EstimatedRemaining
         /\ ~call.checks[2].force
         /\ call.checks[1].result = "saved" =>
              call.checks[1].nvs_after = StateBytes(EncodeState(config_, EstimatedRemaining))
         /\ remaining_capacity_mah_ =
              ClampRemaining(config_,
                DSub(EstimatedRemaining, MahDelta(Effective, call.offset)))
    /\ IsResetCmd(call.cmd) => Erases = {}
    /\ (~IsClearCmd(call.cmd) /\ ~IsResetCmd(call.cmd)) =>
         /\ Erases = {}
         /\ Len(call.checks) = 1
         /\ ~call.checks[1].force
         /\ call.checks[1].calls = 0
         /\ remaining_capacity_mah_ = Integrated(call.offset)
         /\ call.checks[1].result \in {"interval", "delta", "disabled"} =>
              nvs = call.pre.nvs

\* 'c' on a working storage that holds a record: erased, then written with
\* the 1500 mAh of 11.10 V
C17_Witness ==
  /\ CommandTick
  /\ call.cmd = "c"
  /\ Len(call.pre.nvs) = StateSize
  /\ call.pre.remaining # DOfInt(1500)
  /\ call.log = <<"begin_rw", "clear", "end", "begin_rw", "putBytes", "end">>
  /\ nvs = StateBytes(EncodeState(config_, DOfInt(1500)))

\* the configuration names no namespace or no key
PersistenceOff == config_.nvs_namespace = "" \/ config_.nvs_key_state = ""

\* the same configuration with persistence enabled
Enabled == [config_ EXCEPT !.nvs_namespace = "bat", !.nvs_key_state = "state"]

\* the fields before the last operation, over a working store with no record
OverEmptyStore ==
  [ remaining  |-> call.pre.remaining,
    soc        |-> call.pre.soc,
    last_time  |-> call.pre.last_time,
    last_save  |-> call.pre.last_save,
    last_saved |-> call.pre.last_saved,
    nvs        |-> NoBlob,
    io         |-> AllOk,
    log        |-> <<>>,
    checks     |-> <<>>,
    load       |-> NoLoad ]

\* what the last operation, an update or a reset or a clear, gives with
\* persistence enabled from those fields
WithPersistence ==
  IF call.op = "update"
  THEN maybe_save_to_nvs(Enabled,
         FullCharge(Enabled,
           Integrate(Enabled,
             Command(Enabled, OverEmptyStore, call.now_ms, call.cmd,
                     call.reading.bus_voltage_v),
             call.now_ms, Effective),
           call.now_ms, call.reading.bus_voltage_v, AbsCorrected),
         call.now_ms, FALSE)
  ELSE IF call.op = "reset_state_from_voltage"
  THEN reset_state_from_voltage(Enabled, OverEmptyStore, call.reading.bus_voltage_v)
  ELSE clear_nvs_state(Enabled, OverEmptyStore)

\* C18: with no namespace or no key, no operation makes a call to the
\* storage and the stored bytes stay; the load of begin fails and begin keeps
\* the estimate from the voltage, every save check returns at once, clear
\* changes nothing, and each operation leaves the remaining capacity and the
\* SOC that it leaves with persistence enabled over a store with no record
C18_DisabledNeverTouchesStorage ==
  (PersistenceOff /\ call.op # "construct") =>
    /\ call.log = <<>>
    /\ nvs = call.pre.nvs
    /\ \A e \in SaveChecks : e.result = "disabled" /\ e.calls_after = 0
    /\ (call.op = "begin" /\ call.result) =>
         /\ ~call.load.ok
         /\ call.load.cause = "disabled"
         /\ remaining_capacity_mah_ = EstimatedRemaining
    /\ call.op = "clear_nvs_state" =>
         /\ remaining_capacity_mah_ = call.pre.remaining
         /\ soc_percent_ = call.pre.soc
         /\ last_time_ms_ = call.pre.last_time
         /\ last_nvs_save_ms_ = call.pre.last_save
         /\ last_saved_remaining_capacity_mah_ = call.pre.last_saved
         /\ sample_ = call.pre.sample
    /\ call.op \in {"update", "reset_state_from_voltage", "clear_nvs_state"} =>
         \E with \in {WithPersistence} :
           /\ remaining_capacity_mah_ = with.remaining
           /\ soc_percent_ = with.soc
           /\ last_time_ms_ = with.last_time

\* 'c' with no namespace: the record an earlier configuration left is still
\* there, and the tick has reset from 11.10 V and integrated
C18_Witness ==
  /\ PersistenceOff
  /\ call.op = "update"
  /\ call.cmd = "c"
  /\ call.log = <<>>
  /\ Len(nvs) = StateSize
  /\ Len(call.checks) = 2
  /\ call.checks[1].force
  /\ call.checks[1].result = "disabled"
  /\ remaining_capacity_mah_ # call.pre.remaining
  /\ Len(WithPersistence.log) = 6

\* the Preferences calls of a log from the i-th on keep to the handle:
\* begin() on no open handle, every other call on the handle a begin() that
\* succeeded has opened, end() closing it, and no handle open at the end
RECURSIVE HandleKept(_, _, _)
HandleKept(log, i, open) ==
  IF i > Len(log) THEN ~open
  ELSE IF log[i] \in {"begin_ro", "begin_rw"} THEN ~open /\ HandleKept(log, i + 1, TRUE)
  ELSE IF log[i] \in {"begin_ro_failed", "begin_rw_failed"}
    THEN ~open /\ HandleKept(log, i + 1, FALSE)
  ELSE IF log[i] = "end" THEN open /\ HandleKept(log, i + 1, FALSE)
  ELSE open /\ HandleKept(log, i + 1, TRUE)

\* C19: in every operation each handle that a load, a save or a clear opens
\* is closed before the next is opened and before the operation returns, and
\* after a begin() that failed nothing is called on the handle
C19_HandlesClosed == HandleKept(call.log, 1, FALSE)

\* begin over a store with no record: the load has closed its handle when it
\* returns, the seed save opens and closes its own
C19_Witness ==
  /\ call.op = "begin"
  /\ call.load.cause = "size"
  /\ call.log = <<"begin_ro", "getBytesLength", "end", "begin_rw", "putBytes", "end">>

\* C20 as stated: the estimate at the voltage of a breakpoint of the table in
\* use is the percent of that breakpoint; at or above the first breakpoint it
\* is the percent of the first (100 for the built-in table), at or below the
\* last that of the last (0 for the built-in table); it is never below 0 nor
\* above 100
C20_EstimateAtBreakpoints ==
  call.op = "get_soc_from_voltage" =>
    LET table == TableOf(config_)
        last  == table[Len(table)]
    IN  /\ \A i \in DOMAIN table :
             call.lower = table[i].voltage_v => call.soc_lower = table[i].soc_percent
        /\ F32Le(table[1].voltage_v, call.lower) => call.soc_lower = table[1].soc_percent
        /\ F32Le(call.lower, last.voltage_v) => call.soc_lower = last.soc_percent
        /\ (config_.soc_table = NullTable /\ F32Le(F32OfMilli(12600), call.lower)) =>
             call.soc_lower = FullSoc
        /\ (config_.soc_table = NullTable /\ F32Le(call.lower, F32OfMilli(9000))) =>
             call.soc_lower = F32Zero
        /\ F32Le(F32Zero, call.soc_lower)
        /\ F32Le(call.soc_lower, FullSoc)

\* C21 as stated: for two voltages v1 <= v2, the estimate the code computes at
\* v1 is not above the one it computes at v2, for the built-in table and for
\* every table strictly decreasing in voltage and percent
C21_EstimateMonotonic ==
  call.op = "get_soc_from_voltage" => F32Le(call.soc_lower, call.soc_upper)

\* line 177: the non-forced save check that ends update
LastCheck == call.checks[Len(call.checks)]

\* a non-forced save check whose interval has elapsed while the remaining
\* capacity is less than min_save_delta_mah from the saved value
DeltaSkipCase(e) ==
  /\ ~e.force
  /\ is_nvs_enabled(config_)
  /\ IntervalElapsed(e)
  /\ e.last_saved # NaN
  /\ ~DeltaReached(e)

\* the non-forced save checks of the next operation that come less than
\* save_interval_ms after the present last_nvs_save_ms_ make no storage call
\* and leave the saved value
NextChecksWait ==
  \A i \in DOMAIN call'.checks :
    ( /\ ~call'.checks[i].force
      /\ Lt32(Sub32(call'.checks[i].now_ms, last_nvs_save_ms_),
              config_.save_interval_ms) ) =>
      /\ call'.checks[i].calls_after = call'.checks[i].calls
      /\ call'.checks[i].last_saved_after = call'.checks[i].last_saved

\* C22: a non-forced save check made when the interval has elapsed and the
\* remaining capacity is less than min_save_delta_mah from the saved value
\* makes no storage call, leaves the saved value and sets last_nvs_save_ms_
\* to now; the non-forced checks of the next operation write nothing until
\* save_interval_ms after that
C22_DeltaSkipRestartsInterval ==
  /\ [](\A e \in SaveChecks :
          DeltaSkipCase(e) =>
            /\ e.result = "delta"
            /\ e.calls_after = e.calls
            /\ e.last_saved_after = e.last_saved
            /\ e.last_save_after = e.now_ms)
  /\ [][(call.op = "update" /\ DeltaSkipCase(LastCheck)) =>
          (last_nvs_save_ms_ = call.now_ms /\ NextChecksWait)]_vars

\* begin at 1000 ms estimates the remaining capacity and seeds the storage; a
\* tick 600000 ms later with no current skips for the delta; the tick
\* 599999 ms after that has discharged 83 mAh and writes nothing
C22_Witness ==
  /\ call.op = "update"
  /\ ops = 3
  /\ is_nvs_enabled(config_)
  /\ call.pre.last_save = ToU32(601000)
  /\ call.pre.remaining = call.pre.last_saved
  /\ call.offset = ToU32(599999)
  /\ Corrected = F32OfInt(500)
  /\ nvs = call.pre.nvs
  /\ last_nvs_save_ms_ = ToU32(601000)
  /\ \E e \in SaveChecks : ~e.force /\ e.result = "interval" /\ DeltaReached(e)

\* the storage calls of a save check are those of an open that failed or of a
\* short write
WriteFailed(e) ==
  StorageCalls(e) \in {<<"begin_rw_failed">>, <<"begin_rw", "putBytes_short", "end">>}

\* C23: a save check that writes the record sets last_nvs_save_ms_ to now and
\* the saved value to the remaining capacity; one whose open or write fails
\* sets last_nvs_save_ms_ to now and leaves the saved value; neither changes
\* the remaining capacity or the SOC; after an update in which a write failed
\* the non-forced checks of the next operation make no storage call until
\* save_interval_ms after it
C23_SaveAttemptStamps ==
  /\ [](\A e \in SaveChecks :
          /\ StorageCalls(e) = <<"begin_rw", "putBytes", "end">> =>
               /\ e.last_save_after = e.now_ms
               /\ e.last_saved_after = e.remaining
          /\ WriteFailed(e) =>
               /\ e.last_save_after = e.now_ms
               /\ e.last_saved_after = e.last_saved
          /\ e.remaining_after = e.remaining
          /\ e.soc_after = e.soc)
  /\ [][(call.op = "update" /\ \E e \in SaveChecks : WriteFailed(e)) =>
          (last_nvs_save_ms_ = call.now_ms /\ NextChecksWait)]_vars

\* begin at 1000 ms estimates the remaining capacity; the tick 600000 ms
\* later has discharged 83 mAh and its write fails; the tick 599999 ms after
\* that is 166 mAh from the saved value and makes no storage call
C23_Witness ==
  /\ call.op = "update"
  /\ ops = 3
  /\ is_nvs_enabled(config_)
  /\ call.pre.last_save = ToU32(601000)
  /\ call.pre.remaining # call.pre.last_saved
  /\ call.offset = ToU32(599999)
  /\ Corrected = F32OfInt(500)
  /\ call.log = <<>>
  /\ last_saved_remaining_capacity_mah_ = call.pre.last_saved
  /\ DLt(DOfInt(166), DSub(call.pre.last_saved, remaining_capacity_mah_))
  /\ \E e \in SaveChecks : ~e.force /\ e.result = "interval" /\ DeltaReached(e)

\* the save checks of the last operation that made a storage call
Attempts == { i \in DOMAIN call.checks :
                call.checks[i].calls_after > call.checks[i].calls }

\* the last operation is an update without a command byte, the save interval
\* is positive
ThrottledTick ==
  /\ call.op = "update"
  /\ call.cmd = NoByte
  /\ Lt32(Zero32, config_.save_interval_ms)

\* C24 as stated: an update without a command byte makes one storage write
\* attempt at most, and none less than save_interval_ms after the write
\* attempt before it in a run of such updates
C24_WritesAlwaysSpaced ==
  ThrottledTick =>
    /\ Cardinality(Attempts) <= 1
    /\ (Attempts # {} /\ call.waited # NoSpan) =>
         call.waited >= Ms(config_.save_interval_ms)

\* C24: in a run of updates without a command byte whose timestamps advance,
\* an update makes one storage write attempt at most, and its non-forced
\* check makes none less than save_interval_ms after the write attempt before
\* it; a tick that meets the full-charge condition makes its attempt whatever
\* the time since the one before
C24_ThrottledWritesSpaced ==
  ThrottledTick =>
    /\ Cardinality(Attempts) <= 1
    /\ \A i \in Attempts :
         (~call.checks[i].force /\ call.waited # NoSpan) =>
           call.waited >= Ms(config_.save_interval_ms)
    /\ (FullChargeCond /\ is_nvs_enabled(config_)) =>
         \E i \in Attempts : call.checks[i].force

\* a tick that writes 600000 ms after a tick that wrote
C24_Witness ==
  /\ ThrottledTick
  /\ ~FullChargeCond
  /\ call.waited = 600000
  /\ Attempts = {1}
  /\ ~call.checks[1].force
  /\ call.checks[1].result = "saved"
  /\ nvs # call.pre.nvs

\* the last call of the last operation that changed what the storage holds,
\* "none" when there is none
LastChange ==
  LET changes == { i \in DOMAIN call.log : call.log[i] \in {"putBytes", "clear"} }
  IN  IF changes = {} THEN "none"
      ELSE call.log[CHOOSE i \in changes : \A j \in changes : j <= i]

\* the bytes are a record the load accepts, and its remaining capacity is
\* within 0.01 mAh of the value
RecordOf(blob, value) ==
  /\ value # NaN
  /\ AllChecksPass(blob)
  /\ ~DLt(DOfRatio(1, 100), DAbs(DSub(RemainingOfX100(Word32(blob, 13)), value)))

\* the monitor has begun with persistence enabled
Persisting == ready /\ is_nvs_enabled(config_)

\* C25 as stated: once begin has succeeded with persistence enabled, the
\* storage holds a valid record of last_saved_remaining_capacity_mah_
C25_SavedValueDescribesStorage ==
  Persisting => RecordOf(nvs, last_saved_remaining_capacity_mah_)

\* C25: the storage holds a valid record of the saved value after an
\* operation whose last change of the storage is a write, and after a begin
\* that loaded a record of no more than the capacity; after a begin that
\* loaded a record of more than the capacity the saved value is the capacity
\* and the storage keeps the record of the larger value; an operation that does
\* not change the storage leaves the saved value too, begin excepted; after
\* an erase that no write follows the storage is empty and the saved value is
\* what it was; after a begin whose load and seed have both failed the saved
\* value is the estimate from the voltage and the storage is what it was
C25_SavedValueAfterWrite ==
  Persisting =>
    /\ LastChange = "putBytes" => RecordOf(nvs, last_saved_remaining_capacity_mah_)
    /\ (call.op = "begin" /\ call.load.ok /\ ~DLt(Capacity, call.load.value)) =>
         RecordOf(nvs, last_saved_remaining_capacity_mah_)
    /\ (call.op = "begin" /\ call.load.ok /\ DLt(Capacity, call.load.value)) =>
         /\ nvs = call.pre.nvs
         /\ last_saved_remaining_capacity_mah_ = Capacity
         /\ ~RecordOf(nvs, last_saved_remaining_capacity_mah_)
    /\ (LastChange = "none" /\ call.op # "begin") =>
         /\ nvs = call.pre.nvs
         /\ last_saved_remaining_capacity_mah_ = call.pre.last_saved
    /\ LastChange = "clear" =>
         /\ nvs = NoBlob
         /\ call.op # "begin" =>
              last_saved_remaining_capacity_mah_ = call.pre.last_saved
    /\ (call.op = "begin" /\ ~call.load.ok /\ LastChange = "none") =>
         /\ nvs = call.pre.nvs
         /\ last_saved_remaining_capacity_mah_ = EstimatedRemaining

\* a tick over an empty storage (erased, or never seeded): the remaining
\* capacity has moved from the saved value and the tick writes its record
C25_Witness ==
  /\ Persisting
  /\ call.op = "update"
  /\ call.cmd = NoByte
  /\ call.pre.nvs = NoBlob
  /\ ~RecordOf(call.pre.nvs, call.pre.last_saved)
  /\ LastChange = "putBytes"
  /\ last_saved_remaining_capacity_mah_ # call.pre.last_saved
  /\ RecordOf(nvs, last_saved_remaining_capacity_mah_)

\* the remaining capacity is min_save_delta_mah or more from the saved value
Pending ==
  /\ Persisting
  /\ ~DLt(DAbs(DSub(remaining_capacity_mah_, last_saved_remaining_capacity_mah_)),
          config_.min_save_delta_mah)

\* the last operation is an update whose non-forced check has written the
\* record of the remaining capacity
Written ==
  /\ call.op = "update"
  /\ ~LastCheck.force
  /\ StorageCalls(LastCheck) = <<"begin_rw", "putBytes", "end">>
  /\ RecordOf(nvs, remaining_capacity_mah_)
  /\ last_saved_remaining_capacity_mah_ = remaining_capacity_mah_

\* C26: with persistence enabled and a working storage, when the remaining
\* capacity is min_save_delta_mah or more from the saved value and three
\* ticks at least are still to come, a tick writes the record of the remaining
\* capacity unless the remaining capacity has come back to the saved value;
\* the write is made by the first non-forced check that finds the interval
\* elapsed
C26_PendingDeltaIsWritten ==
  /\ ((Pending /\ ops + 3 <= LiveOps) ~> (Written \/ ~Pending))
  /\ [](\A e \in SaveChecks :
          (~e.force /\ is_nvs_enabled(config_) /\ IntervalElapsed(e) /\ DeltaReached(e)) =>
            /\ StorageCalls(e) = <<"begin_rw", "putBytes", "end">>
            /\ e.last_saved_after = e.remaining)

\* a tick that finds the remaining capacity away from the saved value, as
\* the tick before left it, and writes it
C26_Witness ==
  /\ Written
  /\ call.pre.remaining # call.pre.last_saved
  /\ DeltaReached([LastCheck EXCEPT !.remaining = call.pre.remaining])
  /\ call.pre.last_save # call.pre.last_time
  /\ nvs # call.pre.nvs

\* C27: at the return of a successful begin and of an update the published
\* sample carries the remaining capacity and the SOC of the monitor; sample
\* changes no state; reset_state_from_voltage and clear_nvs_state leave the
\* published sample and both timestamps as they were, and
\* reset_state_from_voltage makes no storage call
C27_PublishedSampleAndFrames ==
  /\ ((call.op = "begin" /\ call.result) \/ call.op = "update") =>
       /\ sample_.remaining_capacity_mah = remaining_capacity_mah_
       /\ sample_.soc_percent = soc_percent_
  /\ call.op = "sample" =>
       /\ remaining_capacity_mah_ = call.pre.remaining
       /\ soc_percent_ = call.pre.soc
       /\ sample_ = call.pre.sample
       /\ last_time_ms_ = call.pre.last_time
       /\ last_nvs_save_ms_ = call.pre.last_save
       /\ last_saved_remaining_capacity_mah_ = call.pre.last_saved
       /\ nvs = call.pre.nvs
       /\ call.log = <<>>
  /\ call.op \in {"reset_state_from_voltage", "clear_nvs_state"} =>
       /\ sample_ = call.pre.sample
       /\ last_time_ms_ = call.pre.last_time
       /\ last_nvs_save_ms_ = call.pre.last_save
  /\ call.op = "reset_state_from_voltage" => (call.log = <<>> /\ nvs = call.pre.nvs)

\* a reset from a voltage that moves the remaining capacity and the SOC away
\* from those of the published sample, which stays as the update before left it
C27_Witness ==
  /\ call.op = "reset_state_from_voltage"
  /\ call.pre.sample.current_ma # NaN
  /\ sample_ = call.pre.sample
  /\ sample_.remaining_capacity_mah # remaining_capacity_mah_
  /\ sample_.soc_percent # soc_percent_
  /\ call.pre.last_time # Zero32
  /\ last_time_ms_ = call.pre.last_time
====
